---- MODULE Spec2Model ----
(***************************************************************************)
(* Verification model of the procedural geometry engine of                 *)
(* generative_cover: the deterministic value noise / fBm field, the flow   *)
(* line tracer and the Catmull-Rom blob outline generator.                 *)
(*                                                                         *)
(* Numbers.  Python integers are unbounded and Python floats are binary    *)
(* fractions.  Both are represented here exactly: an integer is a          *)
(* two's-complement word of NL limbs of LimbBits bits (wide enough that no *)
(* intermediate value of the bounded inputs is truncated), a float is a    *)
(* dyadic fraction m / 2^e with an integer mantissa m, and a quotient of   *)
(* two floats is kept as a fraction of two dyadics.  No rounding is        *)
(* modelled: the arithmetic is that of the reals.                          *)
(***************************************************************************)
EXTENDS Integers, Sequences, FiniteSets, TLC

(***************************************************************************)
(* Python int: arbitrary-precision two's-complement integers.              *)
(***************************************************************************)
LimbBits == 12
NL == 10
B == 2 ^ LimbBits

\* the values a Python int takes here: NL limbs, least significant first
Words == Seq(0..(B - 1))

\* a limb vector given as a function on 1..NL, as a sequence
Word(f) == SubSeq(f, 1, NL)

RECURSIVE IntFromLimbs(_, _)
IntFromLimbs(n, k) ==
    IF k = 0 THEN <<>> ELSE <<n % B>> \o IntFromLimbs(n \div B, k - 1)

\* the integer n (a small literal or loop value) as a Python int
IntFrom(n) == IntFromLimbs(n, NL)

IntZero == IntFrom(0)

IntIsNeg(a) == a[NL] >= B \div 2

\* the carry into limb i of a + b + cin
CarryIn(a, b, cin, i) ==
    \/ \E j \in 1..(i - 1) :
          /\ a[j] + b[j] >= B
          /\ \A k \in (j + 1)..(i - 1) : a[k] + b[k] = B - 1
    \/ /\ cin = 1
       /\ \A k \in 1..(i - 1) : a[k] + b[k] = B - 1

AddLimbs(a, b, cin) ==
    Word([i \in 1..NL |->
            (a[i] + b[i] + (IF CarryIn(a, b, cin, i) THEN 1 ELSE 0)) % B])

\* ~a
IntNot[a \in Words] == Word([i \in 1..NL |-> (B - 1) - a[i]])

\* a + b
IntAdd[a \in Words, b \in Words] == AddLimbs(a, b, 0)

\* -a
IntNeg[a \in Words] == AddLimbs(IntNot[a], IntZero, 1)

\* a - b
IntSub[a \in Words, b \in Words] == AddLimbs(a, IntNot[b], 1)

\* the sum of the limb products a[i] * b[k+1-i] of column k, from i on
RECURSIVE ColSum(_, _, _, _)
ColSum(a, b, k, i) ==
    IF i > k THEN 0 ELSE a[i] * b[k + 1 - i] + ColSum(a, b, k, i + 1)

\* a * b
IntMul[a \in Words, b \in Words] ==
    LET cols == Word([k \in 1..NL |-> ColSum(a, b, k, 1)])
        lo   == Word([k \in 1..NL |-> cols[k] % B])
        mid  == Word([k \in 1..NL |->
                        IF k >= 2 THEN (cols[k - 1] \div B) % B ELSE 0])
        hi   == Word([k \in 1..NL |->
                        IF k >= 3 THEN cols[k - 2] \div (B * B) ELSE 0])
    IN  IntAdd[IntAdd[lo, mid], hi]

\* limb i of a, sign-extended beyond the top limb
LimbExt(a, i) == IF i <= NL THEN a[i] ELSE IF IntIsNeg(a) THEN B - 1 ELSE 0

\* a >> s (arithmetic shift: floor(a / 2^s))
IntShr[a \in Words, s \in Nat] ==
    LET q == s \div LimbBits
        r == s % LimbBits
    IN  Word([i \in 1..NL |->
                (LimbExt(a, i + q) \div (2 ^ r))
                + (LimbExt(a, i + q + 1) % (2 ^ r)) * (2 ^ (LimbBits - r))])

\* limb i of a, zero below the first limb
LimbLow(a, i) == IF i >= 1 THEN a[i] ELSE 0

\* a << s
IntShl[a \in Words, s \in Nat] ==
    LET q == s \div LimbBits
        r == s % LimbBits
    IN  Word([i \in 1..NL |->
                ((LimbLow(a, i - q) % (2 ^ (LimbBits - r))) * (2 ^ r))
                + (LimbLow(a, i - q - 1) \div (2 ^ (LimbBits - r)))])

RECURSIVE XorBits(_, _, _)
XorBits(u, v, k) ==
    IF k = 0 THEN 0
    ELSE ((u + v) % 2) + 2 * XorBits(u \div 2, v \div 2, k - 1)

\* a ^ b
IntXor[a \in Words, b \in Words] == Word([i \in 1..NL |-> XorBits(a[i], b[i], LimbBits)])

\* a & 0xFFFFFFFF
IntAnd32[a \in Words] ==
    Word([i \in 1..NL |->
            IF i * LimbBits <= 32 THEN a[i]
            ELSE IF (i - 1) * LimbBits >= 32 THEN 0
            ELSE a[i] % (2 ^ (32 - (i - 1) * LimbBits))])

\* a < b, for values whose difference fits the word
IntLess[a \in Words, b \in Words] == IntIsNeg(IntSub[a, b])

IntLeq[a \in Words, b \in Words] == ~IntLess[b, a]

(***************************************************************************)
(* Smooth 2D value noise + fBm  (organic_with_blobs.py, lines 26-84; the   *)
(* same text is in organic_flowfield.py and blobs_only.py).                *)
(***************************************************************************)
K1 == 374761393
K2 == 668265263
K3 == 362437
KMul == 668265261   \* 0x27D4EB2D

\* the final n & 0xFFFFFFFF left out
_hash_int_NoMask(n) ==
    LET n1 == IntXor[IntXor[n, IntFrom(61)], IntShr[n, 16]]
        n2 == IntAdd[n1, IntShl[n1, 3]]
        n3 == IntXor[n2, IntShr[n2, 4]]
        n4 == IntMul[n3, IntFrom(KMul)]
        n5 == IntXor[n4, IntShr[n4, 15]]
    IN  n5

_hash_int(n) ==
    LET n1 == IntXor[IntXor[n, IntFrom(61)], IntShr[n, 16]]
        n2 == IntAdd[n1, IntShl[n1, 3]]
        n3 == IntXor[n2, IntShr[n2, 4]]
        n4 == IntMul[n3, IntFrom(KMul)]
        n5 == IntXor[n4, IntShr[n4, 15]]
    IN  IntAnd32[n5]

\* the argument of _hash_int in _rand2: ix*K1 + iy*K2 + seed*K3
LatticeKey(ix, iy, seed) ==
    IntAdd[IntAdd[IntMul[ix, IntFrom(K1)], IntMul[iy, IntFrom(K2)]],
           IntMul[seed, IntFrom(K3)]]

(***************************************************************************)
(* Python float, as an exact dyadic fraction m / 2^e.                      *)
(***************************************************************************)
Flt(n, e) == [m |-> IntFrom(n), e |-> e]

\* int -> float conversion of an arithmetic operand
FltOfInt(a) == [m |-> a, e |-> 0]

FltMax2(i, j) == IF i >= j THEN i ELSE j

\* the mantissa of a at exponent e >= a.e
FltAlign(a, e) == IF e = a.e THEN a.m ELSE IntShl[a.m, e - a.e]

FltAdd(a, b) ==
    LET e == FltMax2(a.e, b.e)
    IN  [m |-> IntAdd[FltAlign(a, e), FltAlign(b, e)], e |-> e]

FltSub(a, b) ==
    LET e == FltMax2(a.e, b.e)
    IN  [m |-> IntSub[FltAlign(a, e), FltAlign(b, e)], e |-> e]

FltMul(a, b) == [m |-> IntMul[a.m, b.m], e |-> a.e + b.e]

FltLess(a, b) ==
    LET e == FltMax2(a.e, b.e)
    IN  IntLess[FltAlign(a, e), FltAlign(b, e)]

FltLeq(a, b) == ~FltLess(b, a)

FltEq(a, b) ==
    LET e == FltMax2(a.e, b.e)
    IN  FltAlign(a, e) = FltAlign(b, e)

\* math.floor(a), a Python int
FltFloor(a) == IntShr[a.m, a.e]

\* max(a, b) of the builtin: the first argument unless the second is larger
FltMax(a, b) == IF FltLess(a, b) THEN b ELSE a

\* the float literal 1e-9 = 0x1.12E0BE826D695p-30 = 4835703278458517 / 2^82
EpsHi == 4503599
EpsLo == 673633941
Eps == [m |-> IntAdd[IntMul[IntFrom(EpsHi), IntFrom(2 ^ 30)], IntFrom(EpsLo)],
        e |-> 82]

\* h / 2**32 of _rand2
_rand2(ix, iy, seed) == [m |-> _hash_int(LatticeKey(ix, iy, seed)), e |-> 32]

\* HashMixer.mix as the specification words it: the key reduced to 32 bits,
\* then the five steps, masked to 32 bits after every step
HashMixer_mix(ix, iy, seed) ==
    LET n0 == IntAnd32[LatticeKey(ix, iy, seed)]
        n1 == IntAnd32[IntXor[IntXor[n0, IntFrom(61)], IntShr[n0, 16]]]
        n2 == IntAnd32[IntAdd[n1, IntShl[n1, 3]]]
        n3 == IntAnd32[IntXor[n2, IntShr[n2, 4]]]
        n4 == IntAnd32[IntMul[n3, IntFrom(KMul)]]
        n5 == IntAnd32[IntXor[n4, IntShr[n4, 15]]]
    IN  n5

_fade(t) ==
    FltMul(FltMul(FltMul(t, t), t),
           FltAdd(FltMul(t, FltSub(FltMul(t, Flt(6, 0)), Flt(15, 0))),
                  Flt(10, 0)))

\* the weights of the two ends exchanged
_lerp_Swapped(a, b, t) == FltAdd(b, FltMul(FltSub(a, b), t))

_lerp(a, b, t) == FltAdd(a, FltMul(FltSub(b, a), t))

value_noise_2d(x, y, seed) ==
    LET x0 == FltFloor(x)
        y0 == FltFloor(y)
        x1 == IntAdd[x0, IntFrom(1)]
        y1 == IntAdd[y0, IntFrom(1)]
        sx == _fade(FltSub(x, FltOfInt(x0)))
        sy == _fade(FltSub(y, FltOfInt(y0)))
        n00 == _rand2(x0, y0, seed)
        n10 == _rand2(x1, y0, seed)
        n01 == _rand2(x0, y1, seed)
        n11 == _rand2(x1, y1, seed)
        ix0 == _lerp(n00, n10, sx)
        ix1 == _lerp(n01, n11, sx)
    IN  _lerp(ix0, ix1, sy)

\* freq multiplied by lacunarity before the layer is sampled
RECURSIVE FbmLoop_FreqFirst(_, _, _, _, _, _, _, _)
FbmLoop_FreqFirst(x, y, seed, octaves, lacunarity, gain, o, acc) ==
    IF o >= octaves THEN acc
    ELSE FbmLoop_FreqFirst(x, y, seed, octaves, lacunarity, gain, o + 1,
           [amp   |-> FltMul(acc.amp, gain),
            freq  |-> FltMul(acc.freq, lacunarity),
            total |-> FltAdd(acc.total,
                        FltMul(acc.amp,
                               value_noise_2d(
                                   FltMul(x, FltMul(acc.freq, lacunarity)),
                                   FltMul(y, FltMul(acc.freq, lacunarity)),
                                   IntAdd[seed, IntFrom(1013 * o)]))),
            norm  |-> FltAdd(acc.norm, acc.amp)])

\* every layer sampled with the base seed, without the 1013 * o offset
RECURSIVE FbmLoop_SameSeed(_, _, _, _, _, _, _, _)
FbmLoop_SameSeed(x, y, seed, octaves, lacunarity, gain, o, acc) ==
    IF o >= octaves THEN acc
    ELSE FbmLoop_SameSeed(x, y, seed, octaves, lacunarity, gain, o + 1,
           [amp   |-> FltMul(acc.amp, gain),
            freq  |-> FltMul(acc.freq, lacunarity),
            total |-> FltAdd(acc.total,
                        FltMul(acc.amp,
                               value_noise_2d(FltMul(x, acc.freq),
                                              FltMul(y, acc.freq),
                                              seed))),
            norm  |-> FltAdd(acc.norm, acc.amp)])

\* the accumulators (amp, freq, total, norm) of fbm_2d after the octave
\* loop has run for o, o+1, ..., octaves-1
RECURSIVE FbmLoop(_, _, _, _, _, _, _, _)
FbmLoop(x, y, seed, octaves, lacunarity, gain, o, acc) ==
    IF o >= octaves THEN acc
    ELSE FbmLoop(x, y, seed, octaves, lacunarity, gain, o + 1,
           [amp   |-> FltMul(acc.amp, gain),
            freq  |-> FltMul(acc.freq, lacunarity),
            total |-> FltAdd(acc.total,
                        FltMul(acc.amp,
                               value_noise_2d(FltMul(x, acc.freq),
                                              FltMul(y, acc.freq),
                                              IntAdd[seed, IntFrom(1013 * o)]))),
            norm  |-> FltAdd(acc.norm, acc.amp)])

\* the division made by norm itself, without the max(norm, 1e-9) guard
fbm_2d_NoGuard(x, y, seed, octaves, lacunarity, gain) ==
    LET acc == FbmLoop(x, y, seed, octaves, lacunarity, gain, 0,
                       [amp |-> Flt(1, 0), freq |-> Flt(1, 0),
                        total |-> Flt(0, 0), norm |-> Flt(0, 0)])
    IN  [n |-> acc.total, d |-> acc.norm]

\* the sum of the layers returned without the division by the amplitudes
fbm_2d_Unnormalised(x, y, seed, octaves, lacunarity, gain) ==
    LET acc == FbmLoop(x, y, seed, octaves, lacunarity, gain, 0,
                       [amp |-> Flt(1, 0), freq |-> Flt(1, 0),
                        total |-> Flt(0, 0), norm |-> Flt(0, 0)])
    IN  [n |-> acc.total, d |-> Flt(1, 0)]

\* total / max(norm, 1e-9), kept as the fraction n / d of two floats
fbm_2d(x, y, seed, octaves, lacunarity, gain) ==
    LET acc == FbmLoop(x, y, seed, octaves, lacunarity, gain, 0,
                       [amp |-> Flt(1, 0), freq |-> Flt(1, 0),
                        total |-> Flt(0, 0), norm |-> Flt(0, 0)])
    IN  [n |-> acc.total, d |-> FltMax(acc.norm, Eps)]

(***************************************************************************)
(* Quotients of floats (the result of a float division), kept as n / d     *)
(* with d > 0.                                                             *)
(***************************************************************************)
QLess(p, q) == FltLess(FltMul(p.n, q.d), FltMul(q.n, p.d))

QLeq(p, q) == ~QLess(q, p)

QOfFlt(a) == [n |-> a, d |-> Flt(1, 0)]

QEq(p, q) == FltEq(FltMul(p.n, q.d), FltMul(q.n, p.d))

QAdd(p, q) ==
    [n |-> FltAdd(FltMul(p.n, q.d), FltMul(q.n, p.d)), d |-> FltMul(p.d, q.d)]

QSub(p, q) ==
    [n |-> FltSub(FltMul(p.n, q.d), FltMul(q.n, p.d)), d |-> FltMul(p.d, q.d)]

QMul(p, q) == [n |-> FltMul(p.n, q.n), d |-> FltMul(p.d, q.d)]

\* p / q for q > 0
QDiv(p, q) == [n |-> FltMul(p.n, q.d), d |-> FltMul(p.d, q.n)]

QInt(n) == QOfFlt(Flt(n, 0))

(***************************************************************************)
(* Library functions the generators call.                                  *)
(***************************************************************************)
\* random.Random.uniform(a, b) = a + (b - a) * random(), r the value drawn
uniform(a, b, r) == FltAdd(a, FltMul(FltSub(b, a), r))

\* An angle (2*pi*turns) * n, for n = q.n / q.d in [0, MaxTurnsSpan), is
\* kept as the sector of an NDirs-point compass it falls in; math.cos and
\* math.sin are taken at the sector's direction, in quarters.
NDirs == 8
CosTab == <<4, 3, 0, -3, -4, -3, 0, 3>>
SinTab == <<0, 3, 4, 3, 0, -3, -4, -3>>
MaxTurnsSpan == 4

Angle(turns, q) ==
    LET t == FltMul(FltMul(Flt(NDirs, 0), turns), q.n)
        k == CHOOSE j \in 0..(NDirs * MaxTurnsSpan) :
                /\ FltLeq(FltMul(Flt(j, 0), q.d), t)
                /\ FltLess(t, FltMul(Flt(j + 1, 0), q.d))
    IN  k % NDirs

cos(angle) == Flt(CosTab[angle + 1], 2)

sin(angle) == Flt(SinTab[angle + 1], 2)

(***************************************************************************)
(* Geometry helpers (organic_with_blobs.py, lines 107-189).  A point is a  *)
(* pair <<x, y>> of quotients; a segment is <<p1, c1, c2, p2>>.            *)
(***************************************************************************)
PointEq(p, q) == QEq(p[1], q[1]) /\ QEq(p[2], q[2])

\* the stencil index clamped also on a closed ring
StencilPoint_Clamped(points, closed, k) ==
    LET n == Len(points)
    IN  points[(IF k < 0 THEN 0 ELSE IF k > n - 1 THEN n - 1 ELSE k) + 1]

\* points[k % n] if closed, points[min(max(k, 0), n - 1)] otherwise
StencilPoint(points, closed, k) ==
    LET n == Len(points)
    IN  IF closed THEN points[(k % n) + 1]
        ELSE points[(IF k < 0 THEN 0 ELSE IF k > n - 1 THEN n - 1 ELSE k) + 1]

\* the two handles of the segment in each other's place
Segment_SwappedHandles(points, closed, tension, i) ==
    LET n == Len(points)
        p0 == StencilPoint(points, closed, i - 1)
        p1 == points[(i % n) + 1]
        p2 == StencilPoint(points, closed, i + 1)
        p3 == StencilPoint(points, closed, i + 2)
        t == QOfFlt(tension)
        c1 == <<QAdd(p1[1], QMul(QDiv(QSub(p2[1], p0[1]), QInt(6)), t)),
                QAdd(p1[2], QMul(QDiv(QSub(p2[2], p0[2]), QInt(6)), t))>>
        c2 == <<QSub(p2[1], QMul(QDiv(QSub(p3[1], p1[1]), QInt(6)), t)),
                QSub(p2[2], QMul(QDiv(QSub(p3[2], p1[2]), QInt(6)), t))>>
    IN  <<p1, c2, c1, p2>>

\* the second handle taken from the chord p2 - p1 of the segment itself
Segment_OneSidedHandle(points, closed, tension, i) ==
    LET n == Len(points)
        p0 == StencilPoint(points, closed, i - 1)
        p1 == points[(i % n) + 1]
        p2 == StencilPoint(points, closed, i + 1)
        t == QOfFlt(tension)
        c1 == <<QAdd(p1[1], QMul(QDiv(QSub(p2[1], p0[1]), QInt(6)), t)),
                QAdd(p1[2], QMul(QDiv(QSub(p2[2], p0[2]), QInt(6)), t))>>
        c2 == <<QSub(p2[1], QMul(QDiv(QSub(p2[1], p1[1]), QInt(6)), t)),
                QSub(p2[2], QMul(QDiv(QSub(p2[2], p1[2]), QInt(6)), t))>>
    IN  <<p1, c1, c2, p2>>

\* lines 121-134: the segment the loop body appends for index i
Segment(points, closed, tension, i) ==
    LET n == Len(points)
        p0 == StencilPoint(points, closed, i - 1)
        p1 == points[(i % n) + 1]
        p2 == StencilPoint(points, closed, i + 1)
        p3 == StencilPoint(points, closed, i + 2)
        t == QOfFlt(tension)
        c1 == <<QAdd(p1[1], QMul(QDiv(QSub(p2[1], p0[1]), QInt(6)), t)),
                QAdd(p1[2], QMul(QDiv(QSub(p2[2], p0[2]), QInt(6)), t))>>
        c2 == <<QSub(p2[1], QMul(QDiv(QSub(p3[1], p1[1]), QInt(6)), t)),
                QSub(p2[2], QMul(QDiv(QSub(p3[2], p1[2]), QInt(6)), t))>>
    IN  <<p1, c1, c2, p2>>

\* the loop running over all n indices whether the curve is closed or not
RECURSIVE CatmullLoop_OpenWraps(_, _, _, _, _)
CatmullLoop_OpenWraps(points, closed, tension, i, acc) ==
    LET n == Len(points)
    IN  IF i >= n THEN acc
        ELSE CatmullLoop_OpenWraps(points, closed, tension, i + 1,
                 Append(acc, Segment(points, closed, tension, i)))

\* lines 120-136: the loop from index i on, acc the segments so far
RECURSIVE CatmullLoop(_, _, _, _, _)
CatmullLoop(points, closed, tension, i, acc) ==
    LET n == Len(points)
    IN  IF i >= (IF closed THEN n ELSE n - 1) THEN acc
        ELSE LET acc2 == Append(acc, Segment(points, closed, tension, i))
             IN  IF ~closed /\ i = n - 2 THEN acc2
                 ELSE CatmullLoop(points, closed, tension, i + 1, acc2)

\* three points accepted
catmull_rom_to_beziers_Min3(points, closed, tension) ==
    IF Len(points) < 3
    THEN [raised |-> "ValueError", segs |-> <<>>]
    ELSE [raised |-> "", segs |-> CatmullLoop(points, closed, tension, 0, <<>>)]

\* the outcome of a call: the exception raised ("" if none) and the list
\* returned
catmull_rom_to_beziers(points, closed, tension) ==
    IF Len(points) < 4
    THEN [raised |-> "ValueError", segs |-> <<>>]
    ELSE [raised |-> "", segs |-> CatmullLoop(points, closed, tension, 0, <<>>)]

(***************************************************************************)
(* The copies of the noise functions in blobs_only.py and                  *)
(* organic_flowfield.py and of catmull_rom_to_beziers in blobs_only.py,    *)
(* each translated from its own text.  The definitions without a prefix    *)
(* above are those of organic_with_blobs.py.                               *)
(***************************************************************************)
\* the noise functions of blobs_only.py
blobs_only_hash_int(n) ==
    LET n1 == IntXor[IntXor[n, IntFrom(61)], IntShr[n, 16]]
        n2 == IntAdd[n1, IntShl[n1, 3]]
        n3 == IntXor[n2, IntShr[n2, 4]]
        n4 == IntMul[n3, IntFrom(668265261)]
        n5 == IntXor[n4, IntShr[n4, 15]]
    IN  IntAnd32[n5]

blobs_only_rand2(ix, iy, seed) ==
    [m |-> blobs_only_hash_int(IntAdd[IntAdd[IntMul[ix, IntFrom(374761393)],
                                      IntMul[iy, IntFrom(668265263)]],
                               IntMul[seed, IntFrom(362437)]]),
     e |-> 32]

blobs_only_fade(t) ==
    FltMul(FltMul(FltMul(t, t), t),
           FltAdd(FltMul(t, FltSub(FltMul(t, Flt(6, 0)), Flt(15, 0))),
                  Flt(10, 0)))

blobs_only_lerp(a, b, t) == FltAdd(a, FltMul(FltSub(b, a), t))

blobs_only_value_noise_2d(x, y, seed) ==
    LET x0 == FltFloor(x)
        y0 == FltFloor(y)
        x1 == IntAdd[x0, IntFrom(1)]
        y1 == IntAdd[y0, IntFrom(1)]
        sx == blobs_only_fade(FltSub(x, FltOfInt(x0)))
        sy == blobs_only_fade(FltSub(y, FltOfInt(y0)))
        n00 == blobs_only_rand2(x0, y0, seed)
        n10 == blobs_only_rand2(x1, y0, seed)
        n01 == blobs_only_rand2(x0, y1, seed)
        n11 == blobs_only_rand2(x1, y1, seed)
        ix0 == blobs_only_lerp(n00, n10, sx)
        ix1 == blobs_only_lerp(n01, n11, sx)
    IN  blobs_only_lerp(ix0, ix1, sy)

RECURSIVE blobs_only_FbmLoop(_, _, _, _, _, _, _, _)
blobs_only_FbmLoop(x, y, seed, octaves, lacunarity, gain, o, acc) ==
    IF o >= octaves THEN acc
    ELSE blobs_only_FbmLoop(x, y, seed, octaves, lacunarity, gain, o + 1,
           [amp   |-> FltMul(acc.amp, gain),
            freq  |-> FltMul(acc.freq, lacunarity),
            total |-> FltAdd(acc.total,
                        FltMul(acc.amp,
                               blobs_only_value_noise_2d(FltMul(x, acc.freq),
                                                  FltMul(y, acc.freq),
                                                  IntAdd[seed, IntFrom(1013 * o)]))),
            norm  |-> FltAdd(acc.norm, acc.amp)])

blobs_only_fbm_2d(x, y, seed, octaves, lacunarity, gain) ==
    LET acc == blobs_only_FbmLoop(x, y, seed, octaves, lacunarity, gain, 0,
                           [amp |-> Flt(1, 0), freq |-> Flt(1, 0),
                            total |-> Flt(0, 0), norm |-> Flt(0, 0)])
    IN  [n |-> acc.total, d |-> FltMax(acc.norm, Eps)]

\* the noise functions of organic_flowfield.py
organic_flowfield_hash_int(n) ==
    LET n1 == IntXor[IntXor[n, IntFrom(61)], IntShr[n, 16]]
        n2 == IntAdd[n1, IntShl[n1, 3]]
        n3 == IntXor[n2, IntShr[n2, 4]]
        n4 == IntMul[n3, IntFrom(668265261)]
        n5 == IntXor[n4, IntShr[n4, 15]]
    IN  IntAnd32[n5]

organic_flowfield_rand2(ix, iy, seed) ==
    [m |-> organic_flowfield_hash_int(IntAdd[IntAdd[IntMul[ix, IntFrom(374761393)],
                                      IntMul[iy, IntFrom(668265263)]],
                               IntMul[seed, IntFrom(362437)]]),
     e |-> 32]

organic_flowfield_fade(t) ==
    FltMul(FltMul(FltMul(t, t), t),
           FltAdd(FltMul(t, FltSub(FltMul(t, Flt(6, 0)), Flt(15, 0))),
                  Flt(10, 0)))

\* the weights of the two ends exchanged
organic_flowfield_lerp_Swapped(a, b, t) == FltAdd(b, FltMul(FltSub(a, b), t))

organic_flowfield_lerp(a, b, t) == FltAdd(a, FltMul(FltSub(b, a), t))

organic_flowfield_value_noise_2d(x, y, seed) ==
    LET x0 == FltFloor(x)
        y0 == FltFloor(y)
        x1 == IntAdd[x0, IntFrom(1)]
        y1 == IntAdd[y0, IntFrom(1)]
        sx == organic_flowfield_fade(FltSub(x, FltOfInt(x0)))
        sy == organic_flowfield_fade(FltSub(y, FltOfInt(y0)))
        n00 == organic_flowfield_rand2(x0, y0, seed)
        n10 == organic_flowfield_rand2(x1, y0, seed)
        n01 == organic_flowfield_rand2(x0, y1, seed)
        n11 == organic_flowfield_rand2(x1, y1, seed)
        ix0 == organic_flowfield_lerp(n00, n10, sx)
        ix1 == organic_flowfield_lerp(n01, n11, sx)
    IN  organic_flowfield_lerp(ix0, ix1, sy)

RECURSIVE organic_flowfield_FbmLoop(_, _, _, _, _, _, _, _)
organic_flowfield_FbmLoop(x, y, seed, octaves, lacunarity, gain, o, acc) ==
    IF o >= octaves THEN acc
    ELSE organic_flowfield_FbmLoop(x, y, seed, octaves, lacunarity, gain, o + 1,
           [amp   |-> FltMul(acc.amp, gain),
            freq  |-> FltMul(acc.freq, lacunarity),
            total |-> FltAdd(acc.total,
                        FltMul(acc.amp,
                               organic_flowfield_value_noise_2d(FltMul(x, acc.freq),
                                                  FltMul(y, acc.freq),
                                                  IntAdd[seed, IntFrom(1013 * o)]))),
            norm  |-> FltAdd(acc.norm, acc.amp)])

organic_flowfield_fbm_2d(x, y, seed, octaves, lacunarity, gain) ==
    LET acc == organic_flowfield_FbmLoop(x, y, seed, octaves, lacunarity, gain, 0,
                           [amp |-> Flt(1, 0), freq |-> Flt(1, 0),
                            total |-> Flt(0, 0), norm |-> Flt(0, 0)])
    IN  [n |-> acc.total, d |-> FltMax(acc.norm, Eps)]

\* catmull_rom_to_beziers of blobs_only.py
blobs_only_StencilPoint(points, closed, k) ==
    LET n == Len(points)
    IN  IF closed THEN points[(k % n) + 1]
        ELSE points[(IF k < 0 THEN 0 ELSE IF k > n - 1 THEN n - 1 ELSE k) + 1]

blobs_only_Segment(points, closed, tension, i) ==
    LET n == Len(points)
        p0 == blobs_only_StencilPoint(points, closed, i - 1)
        p1 == points[(i % n) + 1]
        p2 == blobs_only_StencilPoint(points, closed, i + 1)
        p3 == blobs_only_StencilPoint(points, closed, i + 2)
        t == QOfFlt(tension)
        c1 == <<QAdd(p1[1], QMul(QDiv(QSub(p2[1], p0[1]), QInt(6)), t)),
                QAdd(p1[2], QMul(QDiv(QSub(p2[2], p0[2]), QInt(6)), t))>>
        c2 == <<QSub(p2[1], QMul(QDiv(QSub(p3[1], p1[1]), QInt(6)), t)),
                QSub(p2[2], QMul(QDiv(QSub(p3[2], p1[2]), QInt(6)), t))>>
    IN  <<p1, c1, c2, p2>>

RECURSIVE blobs_only_CatmullLoop(_, _, _, _, _)
blobs_only_CatmullLoop(points, closed, tension, i, acc) ==
    LET n == Len(points)
    IN  IF i >= (IF closed THEN n ELSE n - 1) THEN acc
        ELSE LET acc2 == Append(acc, blobs_only_Segment(points, closed, tension, i))
             IN  IF ~closed /\ i = n - 2 THEN acc2
                 ELSE blobs_only_CatmullLoop(points, closed, tension, i + 1, acc2)

blobs_only_catmull_rom_to_beziers(points, closed, tension) ==
    IF Len(points) < 4
    THEN [raised |-> "ValueError", segs |-> <<>>]
    ELSE [raised |-> "",
          segs |-> blobs_only_CatmullLoop(points, closed, tension, 0, <<>>)]

(***************************************************************************)
(* State.                                                                  *)
(*   nin            the arguments of one noise evaluation                  *)
(*   hout,vout,fout the results of _hash_int, value_noise_2d and fbm_2d    *)
(*                  on those arguments: <<>> until evaluated, then <<r>>   *)
(*   cfg            the Config of generate_flowfield_svg                   *)
(*   pc             where the generator is: "lines" at the head of the     *)
(*                  line loop, "trace" in the step loop, "done" after      *)
(*                  dwg.save(), "idle" when no generator runs              *)
(*   line           lines begun so far                                     *)
(*   x, y           the loop variables x, y of the current line            *)
(*   pts            the point list of the current line                     *)
(*   s              iterations of the step loop completed without break    *)
(*   broke          the step loop left through break                       *)
(*   dwg            the elements added to the drawing                      *)
(*   rngDraws       values drawn from rng so far                           *)
(*   bin            the arguments of one blob_path_d or                    *)
(*                  catmull_rom_to_beziers call                            *)
(*   bpc            where that call is: "ang0", "ring", "spline", "path",  *)
(*                  "returned", "raised"; "catmull" before a direct call   *)
(*                  of catmull_rom_to_beziers; "idle" when none runs       *)
(*   ang0           the angle offset of blob_path_d, in turns              *)
(*   ring           the list pts of blob_path_d                            *)
(*   radii          the radius r of each ring vertex                       *)
(*   segs           the segment list: <<>> until returned, then <<list>>   *)
(*   d              the path of blob_path_d: <<>> until returned, then     *)
(*                  <<commands>>                                           *)
(*   raised         the exception raised, "" if none                       *)
(*   rin            the environment and config of one _resolve_seed call   *)
(*   rout           its outcome: <<>> until it has run, then <<outcome>>   *)
(*   wcfg           the WalkConfig of generate_random_walk_svg             *)
(*   wpc            where that generator is: "lines" at the head of the    *)
(*                  line loop, "walk" in the while loop, "left" after its  *)
(*                  break, "done" after dwg.save(), "idle" when none runs  *)
(*   wline          lines begun so far                                     *)
(*   wx, wy         the loop variables x, y of the current line            *)
(*   wangle         the heading of the walk, a compass sector              *)
(*   wpts           the point list of the current line                     *)
(*   wdwg           the elements added to the drawing                      *)
(*   mcfg           what main() of main.py finds: the parsed config.toml   *)
(*                  and the names of the scripts whose file exists         *)
(*   mpc            where main() is: "start", "scripts" at the head of the *)
(*                  script loop, "seeds" at the head of the seed loop,     *)
(*                  "post" after subprocess.run, "done", "raised", "idle"  *)
(*   msi            entries of [pic_scripts] taken so far                  *)
(*   mki            seeds of the current script completed so far           *)
(*   mseeds         the list seeds                                         *)
(*   mfiles         the names of the files in the output directory         *)
(*   mruns          the subprocess runs made: script name and GEN_SEED     *)
(*   mraised        the exception that ended main(): <<>> or <<exc>>       *)
(*   cargs          the arguments of one call made to every copy of a      *)
(*                  function                                               *)
(*   cres           the results of the copies: <<>> until evaluated        *)
(***************************************************************************)
VARIABLES nin, hout, vout, fout,
          cfg, pc, line, x, y, pts, s, broke, dwg, rngDraws,
          bin, bpc, ang0, ring, radii, segs, d, raised,
          rin, rout,
          wcfg, wpc, wline, wx, wy, wangle, wpts, wdwg,
          mcfg, mpc, msi, mki, mseeds, mfiles, mruns, mraised,
          cargs, cres

noiseVars == <<nin, hout, vout, fout>>
flowVars == <<cfg, pc, line, x, y, pts, s, broke, dwg>>
blobVars == <<bin, bpc, ang0, ring, radii, segs, d, raised>>
seedVars == <<rin, rout>>
walkVars == <<wcfg, wpc, wline, wx, wy, wangle, wpts, wdwg>>
mainVars == <<mcfg, mpc, msi, mki, mseeds, mfiles, mruns, mraised>>
copyVars == <<cargs, cres>>
extVars == <<seedVars, walkVars, mainVars, copyVars>>
coreVars == <<noiseVars, flowVars, rngDraws, blobVars>>
vars == <<nin, hout, vout, fout,
          cfg, pc, line, x, y, pts, s, broke, dwg, rngDraws,
          bin, bpc, ang0, ring, radii, segs, d, raised,
          rin, rout,
          wcfg, wpc, wline, wx, wy, wangle, wpts, wdwg,
          mcfg, mpc, msi, mki, mseeds, mfiles, mruns, mraised,
          cargs, cres>>

SeedIdle ==
    /\ rin = <<>>
    /\ rout = <<>>

WalkIdle ==
    /\ wcfg = <<>>
    /\ wpc = "idle"
    /\ wline = 0
    /\ wx = Flt(0, 0)
    /\ wy = Flt(0, 0)
    /\ wangle = 0
    /\ wpts = <<>>
    /\ wdwg = <<>>

MainIdle ==
    /\ mcfg = <<>>
    /\ mpc = "idle"
    /\ msi = 0
    /\ mki = 0
    /\ mseeds = <<>>
    /\ mfiles = {}
    /\ mruns = <<>>
    /\ mraised = <<>>

CopyIdle ==
    /\ cargs = <<>>
    /\ cres = <<>>

ExtIdle == SeedIdle /\ WalkIdle /\ MainIdle /\ CopyIdle

NoiseIdle ==
    /\ nin = <<>>
    /\ hout = <<>>
    /\ vout = <<>>
    /\ fout = <<>>

FlowIdle ==
    /\ cfg = <<>>
    /\ pc = "idle"
    /\ line = 0
    /\ x = Flt(0, 0)
    /\ y = Flt(0, 0)
    /\ pts = <<>>
    /\ s = 0
    /\ broke = FALSE
    /\ dwg = <<>>
    /\ rngDraws = 0

BlobIdle ==
    /\ bin = <<>>
    /\ bpc = "idle"
    /\ ang0 = Flt(0, 0)
    /\ ring = <<>>
    /\ radii = <<>>
    /\ segs = <<>>
    /\ d = <<>>
    /\ raised = ""

(***************************************************************************)
(* The noise functions applied to bounded arguments.                       *)
(***************************************************************************)
MaxCoord == 5
MaxOctaves == 3

\* sample coordinates: x = k/4 on and between lattice points, of either
\* sign; y = -3/2 and 1/4
XCoords == {<<k, 2>> : k \in -MaxCoord..MaxCoord}
YCoords == {<<-3, 1>>, <<1, 2>>}
Seeds == {-1, 7}
Lacunarities == {<<2, 0>>, <<3, 1>>}
Gains == {<<1, 1>>, <<3, 2>>}

\* gains outside (0, 1): -1, 0, 1 and 2
DegenerateGains == {<<-1, 0>>, <<0, 0>>, <<1, 0>>, <<2, 0>>}

\* samples on lattice lines and lattice points and just right of them:
\* x = -1, 2, -1 + 1/16, 2 + 1/16; y = -2, 3, 1/4
LatticeXs == {<<-1, 0>>, <<2, 0>>, <<-15, 4>>, <<33, 4>>}
LatticeYs == {<<-2, 0>>, <<3, 0>>, <<1, 2>>}

\* calls within the documented parameter ranges, calls with octaves < 1 or a
\* gain outside (0, 1), and calls on and next to the lattice
NoiseInputs ==
    [x : XCoords, y : YCoords, seed : Seeds, octaves : 1..MaxOctaves,
     lacunarity : Lacunarities, gain : Gains]
    \cup
    [x : {<<-3, 2>>, <<2, 2>>}, y : {<<1, 2>>}, seed : Seeds,
     octaves : (-1)..MaxOctaves, lacunarity : {<<2, 0>>},
     gain : Gains \cup DegenerateGains]
    \cup
    [x : LatticeXs, y : LatticeYs, seed : Seeds, octaves : {1},
     lacunarity : {<<2, 0>>}, gain : {<<1, 1>>}]

ArgFlt(p) == Flt(p[1], p[2])

InitNoise ==
    /\ ExtIdle
    /\ nin \in NoiseInputs
    /\ hout = <<>>
    /\ vout = <<>>
    /\ fout = <<>>
    /\ FlowIdle
    /\ BlobIdle

\* _hash_int on the key of the lattice corner (x0, y0) of the sample
EvalHash ==
    /\ hout = <<>>
    /\ hout' = <<_hash_int(LatticeKey(FltFloor(ArgFlt(nin.x)),
                                      FltFloor(ArgFlt(nin.y)),
                                      IntFrom(nin.seed)))>>
    /\ UNCHANGED <<nin, vout, fout>>
    /\ UNCHANGED <<flowVars, rngDraws, blobVars, extVars>>

\* the three functions are evaluated on the same arguments one after the
\* other: _hash_int, then value_noise_2d, then fbm_2d
EvalValueNoise ==
    /\ hout # <<>>
    /\ vout = <<>>
    /\ vout' = <<value_noise_2d(ArgFlt(nin.x), ArgFlt(nin.y),
                                IntFrom(nin.seed))>>
    /\ UNCHANGED <<nin, hout, fout>>
    /\ UNCHANGED <<flowVars, rngDraws, blobVars, extVars>>

EvalFbm ==
    /\ vout # <<>>
    /\ fout = <<>>
    /\ fout' = <<fbm_2d(ArgFlt(nin.x), ArgFlt(nin.y), IntFrom(nin.seed),
                        nin.octaves, ArgFlt(nin.lacunarity),
                        ArgFlt(nin.gain))>>
    /\ UNCHANGED <<nin, hout, vout>>
    /\ UNCHANGED <<flowVars, rngDraws, blobVars, extVars>>

NextNoise == EvalHash \/ EvalValueNoise \/ EvalFbm

SpecNoise == InitNoise /\ [][NextNoise]_vars

(***************************************************************************)
(* generate_flowfield_svg (organic_flowfield.py, lines 132-179); the line  *)
(* loop of generate_svg (organic_with_blobs.py, lines 279-311) is the same *)
(* text.                                                                   *)
(***************************************************************************)
MaxSteps == 8
MaxLines == 2
MinPoints == 8

\* values rng.random() takes: 0, 1/8 and 1/2
RandomUnits == {Flt(0, 0), Flt(1, 3), Flt(1, 1)}

\* a canvas with the flow region inside it (margin 0) and one whose margin
\* exceeds half the canvas, which leaves no point inside
FlowConfigs ==
    [width : {16}, height : {16}, margin : {0, 9}, seed : {7},
     n_lines : 1..MaxLines, steps_per_line : 0..MaxSteps,
     step_len : {Flt(1, 0)}, field_scale : {Flt(1, 1)}, octaves : {2},
     angle_turns : {Flt(1, 0)},
     stroke_opacity_min : {Flt(1, 4)}, stroke_opacity_max : {Flt(3, 4)}]

inside(c, px, py) ==
    /\ FltLeq(Flt(c.margin, 0), px)
    /\ FltLeq(px, Flt(c.width - c.margin, 0))
    /\ FltLeq(Flt(c.margin, 0), py)
    /\ FltLeq(py, Flt(c.height - c.margin, 0))

Rect == [kind |-> "rect", points |-> <<>>, opacity |-> Flt(0, 0)]

InitFlow ==
    /\ ExtIdle
    /\ NoiseIdle
    /\ BlobIdle
    /\ cfg \in FlowConfigs
    /\ pc = "lines"
    /\ line = 0
    /\ x = Flt(0, 0)
    /\ y = Flt(0, 0)
    /\ pts = <<>>
    /\ s = 0
    /\ broke = FALSE
    /\ dwg = <<Rect>>
    /\ rngDraws = 0

\* the point list started empty
StartLine_EmptyPts ==
    /\ pc = "lines"
    /\ line < cfg.n_lines
    /\ \E rx \in RandomUnits, ry \in RandomUnits :
          /\ x' = uniform(Flt(cfg.margin, 0),
                          Flt(cfg.width - cfg.margin, 0), rx)
          /\ y' = uniform(Flt(cfg.margin, 0),
                          Flt(cfg.height - cfg.margin, 0), ry)
          /\ pts' = <<>>
    /\ rngDraws' = rngDraws + 2
    /\ line' = line + 1
    /\ s' = 0
    /\ broke' = FALSE
    /\ pc' = "trace"
    /\ UNCHANGED <<cfg, dwg>>
    /\ UNCHANGED <<noiseVars, blobVars, extVars>>

\* lines 145-150: the start of the next line
StartLine ==
    /\ pc = "lines"
    /\ line < cfg.n_lines
    /\ \E rx \in RandomUnits, ry \in RandomUnits :
          LET x0 == uniform(Flt(cfg.margin, 0),
                            Flt(cfg.width - cfg.margin, 0), rx)
              y0 == uniform(Flt(cfg.margin, 0),
                            Flt(cfg.height - cfg.margin, 0), ry)
          IN  /\ x' = x0
              /\ y' = y0
              /\ pts' = <<<<x0, y0>>>>
    /\ rngDraws' = rngDraws + 2
    /\ line' = line + 1
    /\ s' = 0
    /\ broke' = FALSE
    /\ pc' = "trace"
    /\ UNCHANGED <<cfg, dwg>>
    /\ UNCHANGED <<noiseVars, blobVars, extVars>>

\* lines 152-159: the point a step from (px, py) leads to
StepTarget(c, px, py) ==
    LET n == fbm_2d(FltMul(px, c.field_scale), FltMul(py, c.field_scale),
                    IntFrom(c.seed), c.octaves, Flt(2, 0), Flt(1, 1))
        angle == Angle(c.angle_turns, n)
    IN  <<FltAdd(px, FltMul(cos(angle), c.step_len)),
          FltAdd(py, FltMul(sin(angle), c.step_len))>>

\* the step loop running one iteration too many
Step_OneTooMany ==
    /\ pc = "trace"
    /\ ~broke
    /\ s <= cfg.steps_per_line
    /\ \E p \in {StepTarget(cfg, x, y)} :
          /\ x' = p[1]
          /\ y' = p[2]
          /\ IF ~inside(cfg, p[1], p[2])
             THEN /\ broke' = TRUE
                  /\ UNCHANGED <<pts, s>>
             ELSE /\ pts' = Append(pts, p)
                  /\ s' = s + 1
                  /\ UNCHANGED broke
    /\ UNCHANGED <<cfg, pc, line, dwg, rngDraws>>
    /\ UNCHANGED <<noiseVars, blobVars, extVars>>

\* the bounds check made on the point the step leaves, not the one it
\* reaches
Step_CheckOldPoint ==
    /\ pc = "trace"
    /\ ~broke
    /\ s < cfg.steps_per_line
    /\ \E p \in {StepTarget(cfg, x, y)} :
          /\ x' = p[1]
          /\ y' = p[2]
          /\ IF ~inside(cfg, x, y)
             THEN /\ broke' = TRUE
                  /\ UNCHANGED <<pts, s>>
             ELSE /\ pts' = Append(pts, p)
                  /\ s' = s + 1
                  /\ UNCHANGED broke
    /\ UNCHANGED <<cfg, pc, line, dwg, rngDraws>>
    /\ UNCHANGED <<noiseVars, blobVars, extVars>>

\* the point appended before the bounds check
Step_AppendBeforeCheck ==
    /\ pc = "trace"
    /\ ~broke
    /\ s < cfg.steps_per_line
    /\ \E p \in {StepTarget(cfg, x, y)} :
          /\ x' = p[1]
          /\ y' = p[2]
          /\ pts' = Append(pts, p)
          /\ IF ~inside(cfg, p[1], p[2])
             THEN /\ broke' = TRUE
                  /\ UNCHANGED s
             ELSE /\ s' = s + 1
                  /\ UNCHANGED broke
    /\ UNCHANGED <<cfg, pc, line, dwg, rngDraws>>
    /\ UNCHANGED <<noiseVars, blobVars, extVars>>

\* the step loop without its break: the point is appended whether or not it
\* passes the bounds check, and the loop goes on
Step_NoBreak ==
    /\ pc = "trace"
    /\ ~broke
    /\ s < cfg.steps_per_line
    /\ \E p \in {StepTarget(cfg, x, y)} :
          /\ x' = p[1]
          /\ y' = p[2]
          /\ pts' = Append(pts, p)
          /\ s' = s + 1
          /\ UNCHANGED broke
    /\ UNCHANGED <<cfg, pc, line, dwg, rngDraws>>
    /\ UNCHANGED <<noiseVars, blobVars, extVars>>

\* lines 151-163: one iteration of the step loop
Step ==
    /\ pc = "trace"
    /\ ~broke
    /\ s < cfg.steps_per_line
    /\ \E p \in {StepTarget(cfg, x, y)} :
          /\ x' = p[1]
          /\ y' = p[2]
          /\ IF ~inside(cfg, p[1], p[2])
             THEN /\ broke' = TRUE
                  /\ UNCHANGED <<pts, s>>
             ELSE /\ pts' = Append(pts, p)
                  /\ s' = s + 1
                  /\ UNCHANGED broke
    /\ UNCHANGED <<cfg, pc, line, dwg, rngDraws>>
    /\ UNCHANGED <<noiseVars, blobVars, extVars>>

\* every line drawn, whatever its length
EndLine_DrawAll ==
    /\ pc = "trace"
    /\ broke \/ s = cfg.steps_per_line
    /\ \E r \in RandomUnits :
          /\ dwg' = Append(dwg,
                       [kind |-> "polyline", points |-> pts,
                        opacity |-> uniform(cfg.stroke_opacity_min,
                                            cfg.stroke_opacity_max, r)])
          /\ rngDraws' = rngDraws + 1
    /\ pc' = "lines"
    /\ UNCHANGED <<cfg, line, x, y, pts, s, broke>>
    /\ UNCHANGED <<noiseVars, blobVars, extVars>>

\* the line drawn from one point fewer than MinPoints
EndLine_Min7 ==
    /\ pc = "trace"
    /\ broke \/ s = cfg.steps_per_line
    /\ IF Len(pts) >= MinPoints - 1
       THEN \E r \in RandomUnits :
               /\ dwg' = Append(dwg,
                            [kind |-> "polyline", points |-> pts,
                             opacity |-> uniform(cfg.stroke_opacity_min,
                                                 cfg.stroke_opacity_max, r)])
               /\ rngDraws' = rngDraws + 1
       ELSE UNCHANGED <<dwg, rngDraws>>
    /\ pc' = "lines"
    /\ UNCHANGED <<cfg, line, x, y, pts, s, broke>>
    /\ UNCHANGED <<noiseVars, blobVars, extVars>>

\* the opacity drawn before the length test, for every line
EndLine_OpacityFirst ==
    /\ pc = "trace"
    /\ broke \/ s = cfg.steps_per_line
    /\ \E r \in RandomUnits :
          IF Len(pts) >= MinPoints
          THEN dwg' = Append(dwg,
                        [kind |-> "polyline", points |-> pts,
                         opacity |-> uniform(cfg.stroke_opacity_min,
                                             cfg.stroke_opacity_max, r)])
          ELSE UNCHANGED dwg
    /\ rngDraws' = rngDraws + 1
    /\ pc' = "lines"
    /\ UNCHANGED <<cfg, line, x, y, pts, s, broke>>
    /\ UNCHANGED <<noiseVars, blobVars, extVars>>

\* lines 165-177: the step loop is over (exhausted or broken); the line is
\* drawn if it has MinPoints points
EndLine ==
    /\ pc = "trace"
    /\ broke \/ s = cfg.steps_per_line
    /\ IF Len(pts) >= MinPoints
       THEN \E r \in RandomUnits :
               /\ dwg' = Append(dwg,
                            [kind |-> "polyline", points |-> pts,
                             opacity |-> uniform(cfg.stroke_opacity_min,
                                                 cfg.stroke_opacity_max, r)])
               /\ rngDraws' = rngDraws + 1
       ELSE UNCHANGED <<dwg, rngDraws>>
    /\ pc' = "lines"
    /\ UNCHANGED <<cfg, line, x, y, pts, s, broke>>
    /\ UNCHANGED <<noiseVars, blobVars, extVars>>

\* line 179: dwg.save()
Save ==
    /\ pc = "lines"
    /\ line = cfg.n_lines
    /\ pc' = "done"
    /\ UNCHANGED <<cfg, line, x, y, pts, s, broke, dwg, rngDraws>>
    /\ UNCHANGED <<noiseVars, blobVars, extVars>>

NextFlow == StartLine \/ Step \/ EndLine \/ Save

SpecFlow == InitFlow /\ [][NextFlow]_vars

(***************************************************************************)
(* blob_path_d (organic_with_blobs.py, lines 140-189) and direct calls of  *)
(* catmull_rom_to_beziers.                                                 *)
(***************************************************************************)
MaxPoints == 5

\* format(q, ".2f"): the sign and the digits as a number of hundredths,
\* rounded half to even
FmtSpan == 2 ^ 14

\* the largest k in lo..hi with k * dd <= n
RECURSIVE FloorSearch(_, _, _, _)
FloorSearch(n, dd, lo, hi) ==
    IF lo = hi THEN lo
    ELSE LET mid == (lo + hi + 1) \div 2
         IN  IF FltLeq(FltMul(Flt(mid, 0), dd), n)
             THEN FloorSearch(n, dd, mid, hi)
             ELSE FloorSearch(n, dd, lo, mid - 1)

Fmt2(q) ==
    LET neg == FltLess(q.n, Flt(0, 0))
        a == IF neg THEN FltSub(Flt(0, 0), q.n) ELSE q.n
        n100 == FltMul(a, Flt(100, 0))
        k == FloorSearch(n100, q.d, 0, FmtSpan)
        rem2 == FltMul(FltSub(n100, FltMul(Flt(k, 0), q.d)), Flt(2, 0))
        up == FltLess(q.d, rem2) \/ (FltEq(q.d, rem2) /\ k % 2 = 1)
    IN  [neg |-> neg, h |-> IF up THEN k + 1 ELSE k]

FmtPoint(p) == <<Fmt2(p[1]), Fmt2(p[2])>>

\* the two control points of every C command in each other's place
PathOf_SwappedControls(sg) ==
    <<[cmd |-> "M", args |-> FmtPoint(sg[1][1])]>>
    \o [i \in 1..Len(sg) |->
          [cmd |-> "C",
           args |-> FmtPoint(sg[i][3]) \o FmtPoint(sg[i][2])
                    \o FmtPoint(sg[i][4])]]
    \o <<[cmd |-> "Z", args |-> <<>>]>>

\* lines 181-189: the commands of the path, in order
PathOf(sg) ==
    <<[cmd |-> "M", args |-> FmtPoint(sg[1][1])]>>
    \o [i \in 1..Len(sg) |->
          [cmd |-> "C",
           args |-> FmtPoint(sg[i][2]) \o FmtPoint(sg[i][3])
                    \o FmtPoint(sg[i][4])]]
    \o <<[cmd |-> "Z", args |-> <<>>]>>

BlobInputs ==
    [center : {<<Flt(4, 0), Flt(4, 0)>>}, base_r : {Flt(2, 0)}, seed : {7},
     scale : {Flt(1, 0)}, octaves : {1}, n_points : 0..MaxPoints,
     roughness : {Flt(0, 0), Flt(1, 1), Flt(1, 0)},
     tension : {Flt(1, 0), Flt(3, 2)}]

GridPoints == {<<0, 0>>, <<2, 1>>, <<-1, 3>>}

\* point lists of up to MaxPoints grid points, the first one at the origin
GridLists ==
    {ps \in UNION {[1..n -> GridPoints] : n \in 0..MaxPoints} :
        ps = <<>> \/ ps[1] = <<0, 0>>}

CatmullInputs ==
    [points : GridLists, closed : BOOLEAN, tension : {Flt(1, 0), Flt(3, 2)}]

ArgPoints(ps) == [i \in 1..Len(ps) |-> <<QInt(ps[i][1]), QInt(ps[i][2])>>]

InitBlob ==
    /\ ExtIdle
    /\ NoiseIdle
    /\ FlowIdle
    /\ \/ bpc = "ang0" /\ bin \in BlobInputs
       \/ bpc = "catmull" /\ bin \in CatmullInputs
    /\ ang0 = Flt(0, 0)
    /\ ring = <<>>
    /\ radii = <<>>
    /\ segs = <<>>
    /\ d = <<>>
    /\ raised = ""

\* line 162: ang0 = rng.uniform(0, 2 * math.pi), kept in turns
DrawAng0 ==
    /\ bpc = "ang0"
    /\ \E r \in RandomUnits : ang0' = uniform(Flt(0, 0), Flt(1, 0), r)
    /\ rngDraws' = rngDraws + 1
    /\ bpc' = "ring"
    /\ UNCHANGED <<bin, ring, radii, segs, d, raised>>
    /\ UNCHANGED <<noiseVars, flowVars, extVars>>

\* the deviation taken as n * 2.0, without centering n on 0.5
RingVertex_NoCentering ==
    /\ bpc = "ring"
    /\ Len(ring) < bin.n_points
    /\ \E a \in {Angle(Flt(1, 0),
                       QAdd(QOfFlt(ang0),
                            [n |-> Flt(Len(ring), 0),
                             d |-> Flt(bin.n_points, 0)]))} :
       \E n \in {fbm_2d(FltMul(FltAdd(bin.center[1],
                                      FltMul(cos(a), bin.base_r)), bin.scale),
                        FltMul(FltAdd(bin.center[2],
                                      FltMul(sin(a), bin.base_r)), bin.scale),
                        IntFrom(bin.seed), bin.octaves,
                        Flt(2, 0), Flt(1, 1))} :
       \E dv \in {QMul(n, QInt(2))} :
       \E r \in {QMul(QOfFlt(bin.base_r),
                      QAdd(QInt(1), QMul(dv, QOfFlt(bin.roughness))))} :
          /\ ring' = Append(ring,
                            <<QAdd(QOfFlt(bin.center[1]),
                                   QMul(QOfFlt(cos(a)), r)),
                              QAdd(QOfFlt(bin.center[2]),
                                   QMul(QOfFlt(sin(a)), r))>>)
          /\ radii' = Append(radii, r)
    /\ UNCHANGED <<bin, bpc, ang0, segs, d, raised, rngDraws>>
    /\ UNCHANGED <<noiseVars, flowVars, extVars>>

\* lines 164-176: one iteration of the ring loop
RingVertex ==
    /\ bpc = "ring"
    /\ Len(ring) < bin.n_points
    /\ \E a \in {Angle(Flt(1, 0),
                       QAdd(QOfFlt(ang0),
                            [n |-> Flt(Len(ring), 0),
                             d |-> Flt(bin.n_points, 0)]))} :
       \E n \in {fbm_2d(FltMul(FltAdd(bin.center[1],
                                      FltMul(cos(a), bin.base_r)), bin.scale),
                        FltMul(FltAdd(bin.center[2],
                                      FltMul(sin(a), bin.base_r)), bin.scale),
                        IntFrom(bin.seed), bin.octaves,
                        Flt(2, 0), Flt(1, 1))} :
       \E dv \in {QMul(QSub(n, QOfFlt(Flt(1, 1))), QInt(2))} :
       \E r \in {QMul(QOfFlt(bin.base_r),
                      QAdd(QInt(1), QMul(dv, QOfFlt(bin.roughness))))} :
          /\ ring' = Append(ring,
                            <<QAdd(QOfFlt(bin.center[1]),
                                   QMul(QOfFlt(cos(a)), r)),
                              QAdd(QOfFlt(bin.center[2]),
                                   QMul(QOfFlt(sin(a)), r))>>)
          /\ radii' = Append(radii, r)
    /\ UNCHANGED <<bin, bpc, ang0, segs, d, raised, rngDraws>>
    /\ UNCHANGED <<noiseVars, flowVars, extVars>>

\* line 178: segs = catmull_rom_to_beziers(pts, closed=True, tension)
Spline ==
    /\ bpc = "ring"
    /\ Len(ring) >= bin.n_points
    /\ \E res \in {catmull_rom_to_beziers(ring, TRUE, bin.tension)} :
          IF res.raised # ""
          THEN /\ raised' = res.raised
               /\ bpc' = "raised"
               /\ UNCHANGED segs
          ELSE /\ segs' = <<res.segs>>
               /\ bpc' = "path"
               /\ UNCHANGED raised
    /\ UNCHANGED <<bin, ang0, ring, radii, d, rngDraws>>
    /\ UNCHANGED <<noiseVars, flowVars, extVars>>

\* lines 180-189: the path string is built and returned
BuildPath ==
    /\ bpc = "path"
    /\ d' = <<PathOf(segs[1])>>
    /\ bpc' = "returned"
    /\ UNCHANGED <<bin, ang0, ring, radii, segs, raised, rngDraws>>
    /\ UNCHANGED <<noiseVars, flowVars, extVars>>

\* a call catmull_rom_to_beziers(points, closed, tension)
CallCatmull ==
    /\ bpc = "catmull"
    /\ \E res \in {catmull_rom_to_beziers(ArgPoints(bin.points), bin.closed,
                                          bin.tension)} :
          IF res.raised # ""
          THEN /\ raised' = res.raised
               /\ bpc' = "raised"
               /\ UNCHANGED segs
          ELSE /\ segs' = <<res.segs>>
               /\ bpc' = "returned"
               /\ UNCHANGED raised
    /\ UNCHANGED <<bin, ang0, ring, radii, d, rngDraws>>
    /\ UNCHANGED <<noiseVars, flowVars, extVars>>

NextBlob == DrawAng0 \/ RingVertex \/ Spline \/ BuildPath \/ CallCatmull

SpecBlob == InitBlob /\ [][NextBlob]_vars

(***************************************************************************)
(* _resolve_seed (organic_flowfield.py, lines 89-99; the same text in      *)
(* organic_with_blobs.py, lines 87-97).  A Python value is a record        *)
(* [t |-> type, n |-> number, cs |-> characters, vs |-> elements] with t   *)
(* one of "none", "int", "bool" (n is 0 or 1), "str" (cs its characters)   *)
(* and "list" (vs its elements).  A dict is a function from its keys.  An outcome is          *)
(* [raised |-> exception or "", value |-> the int returned].               *)
(***************************************************************************)
None == [t |-> "none", n |-> 0, cs |-> <<>>, vs |-> <<>>]

PyIntVal(k) == [t |-> "int", n |-> k, cs |-> <<>>, vs |-> <<>>]

PyBool(b) == [t |-> "bool", n |-> IF b THEN 1 ELSE 0, cs |-> <<>>, vs |-> <<>>]

PyStr(chars) == [t |-> "str", n |-> 0, cs |-> chars, vs |-> <<>>]

PyList(elems) == [t |-> "list", n |-> 0, cs |-> <<>>, vs |-> elems]

Returned(n) == [raised |-> "", value |-> n]

Raised(e) == [raised |-> e, value |-> 0]

DigitChars == {"0", "1", "2", "3", "4", "5", "6", "7", "8", "9"}

DigitOf(c) ==
    CASE c = "0" -> 0 [] c = "1" -> 1 [] c = "2" -> 2 [] c = "3" -> 3
      [] c = "4" -> 4 [] c = "5" -> 5 [] c = "6" -> 6 [] c = "7" -> 7
      [] c = "8" -> 8 [] c = "9" -> 9

\* the number the decimal digits cs[1..k] write
RECURSIVE DigitsValue(_, _)
DigitsValue(cs, k) ==
    IF k = 0 THEN 0 ELSE 10 * DigitsValue(cs, k - 1) + DigitOf(cs[k])

\* int(s) for a string s of digits, signs and letters: an optional sign and
\* at least one digit, anything else is a ValueError
int_str(cs) ==
    LET signed == cs # <<>> /\ cs[1] \in {"-", "+"}
        body == IF signed THEN SubSeq(cs, 2, Len(cs)) ELSE cs
    IN  IF body = <<>> \/ \E i \in 1..Len(body) : body[i] \notin DigitChars
        THEN Raised("ValueError")
        ELSE Returned((IF signed /\ cs[1] = "-" THEN -1 ELSE 1)
                      * DigitsValue(body, Len(body)))

\* int(v)
int(v) ==
    CASE v.t \in {"int", "bool"} -> Returned(v.n)
      [] v.t = "str" -> int_str(v.cs)
      [] OTHER -> Raised("TypeError")

\* dct.get(k): None when the key is missing
DictGet(dct, k) == IF k \in DOMAIN dct THEN dct[k] ELSE None

\* seed 0 taken for a missing seed (the test made by truth value)
_resolve_seed_SeedTruthy(env_seed, config) ==
    IF env_seed.t = "str" /\ env_seed.cs # <<>>
    THEN int(env_seed)
    ELSE LET style == IF "style" \in DOMAIN config THEN config["style"]
                      ELSE <<>>
             seed == DictGet(style, "seed")
             seed_list == DictGet(style, "seedlist")
         IN  IF seed.t # "none" /\ ~(seed.t = "int" /\ seed.n = 0)
             THEN int(seed)
             ELSE IF seed_list.t = "list" /\ seed_list.vs # <<>>
                  THEN int(seed_list.vs[1])
                  ELSE Raised("ValueError")

\* lines 89-99, env_seed the value of os.getenv("GEN_SEED")
_resolve_seed(env_seed, config) ==
    IF env_seed.t = "str" /\ env_seed.cs # <<>>
    THEN int(env_seed)
    ELSE LET style == IF "style" \in DOMAIN config THEN config["style"]
                      ELSE <<>>
             seed == DictGet(style, "seed")
             seed_list == DictGet(style, "seedlist")
         IN  IF seed.t # "none"
             THEN int(seed)
             ELSE IF seed_list.t = "list" /\ seed_list.vs # <<>>
                  THEN int(seed_list.vs[1])
                  ELSE Raised("ValueError")

\* GEN_SEED: unset, empty, "5", "0", "-12", "x1"
EnvSeeds ==
    {None, PyStr(<<>>), PyStr(<<"5">>), PyStr(<<"0">>),
     PyStr(<<"-", "1", "2">>), PyStr(<<"x", "1">>)}

\* [style].seed: missing, 0, 3, "x"
StyleSeeds == {None, PyIntVal(0), PyIntVal(3), PyStr(<<"x">>)}

\* [style].seedlist: missing, [], [9, 4], ["7"], the string "9"
StyleSeedLists ==
    {None, PyList(<<>>), PyList(<<PyIntVal(9), PyIntVal(4)>>),
     PyList(<<PyStr(<<"7">>)>>), PyStr(<<"9">>)}

\* the table [style] with the keys that are present
StyleTable(seed, seed_list) ==
    [k \in (IF seed.t = "none" THEN {} ELSE {"seed"})
           \cup (IF seed_list.t = "none" THEN {} ELSE {"seedlist"}) |->
        IF k = "seed" THEN seed ELSE seed_list]

\* configs with a [style] table, and the config without one
SeedConfigs ==
    {[style |-> StyleTable(sd, sl)] : sd \in StyleSeeds, sl \in StyleSeedLists}
    \cup {<<>>}

InitSeed ==
    /\ NoiseIdle
    /\ FlowIdle
    /\ BlobIdle
    /\ WalkIdle
    /\ MainIdle
    /\ CopyIdle
    /\ rin \in [env : EnvSeeds, config : SeedConfigs]
    /\ rout = <<>>

CallResolveSeed ==
    /\ rin # <<>>
    /\ rout = <<>>
    /\ rout' = <<_resolve_seed(rin.env, rin.config)>>
    /\ UNCHANGED rin
    /\ UNCHANGED <<coreVars, walkVars, mainVars, copyVars>>

NextSeed == CallResolveSeed

SpecSeed == InitSeed /\ [][NextSeed]_vars

(***************************************************************************)
(* generate_random_walk_svg (random_walk_lines.py, lines 68-129), from the *)
(* line loop on: the gradient and the background rect are in the drawing.  *)
(* Headings are compass sectors; a turn of delta degrees, delta in         *)
(* [-80, 80], is a turn of -1, 0 or 1 sector.  The stroke colour and width *)
(* of a line, drawn from the generator at lines 102-103, are not kept.     *)
(***************************************************************************)
MaxWalkPoints == 3

WalkUnits == {Flt(0, 0), Flt(1, 1)}

WalkTurns == {-1, 0, 1}

WalkConfigs ==
    [width : {4}, height : {4}, n_lines : {1},
     step_min : {Flt(1, 0)}, step_max : {Flt(3, 0)}]

\* lines 64-65
_inside(px, py, width, height) ==
    /\ FltLeq(Flt(0, 0), px)
    /\ FltLeq(px, Flt(width, 0))
    /\ FltLeq(Flt(0, 0), py)
    /\ FltLeq(py, Flt(height, 0))

\* lines 53-61: the point drawn on the given side with the random unit r
_random_border_point(side, r, width, height) ==
    CASE side = "top" -> <<uniform(Flt(0, 0), Flt(width, 0), r), Flt(0, 0)>>
      [] side = "right" -> <<Flt(width, 0), uniform(Flt(0, 0), Flt(height, 0), r)>>
      [] side = "bottom" -> <<uniform(Flt(0, 0), Flt(width, 0), r), Flt(height, 0)>>
      [] OTHER -> <<Flt(0, 0), uniform(Flt(0, 0), Flt(height, 0), r)>>

InitWalk ==
    /\ NoiseIdle
    /\ FlowIdle
    /\ BlobIdle
    /\ SeedIdle
    /\ MainIdle
    /\ CopyIdle
    /\ wcfg \in WalkConfigs
    /\ wpc = "lines"
    /\ wline = 0
    /\ wx = Flt(0, 0)
    /\ wy = Flt(0, 0)
    /\ wangle = 0
    /\ wpts = <<>>
    /\ wdwg = <<[kind |-> "rect", points |-> <<>>]>>

\* lines 100-106: the start of the next line
WalkStartLine ==
    /\ wpc = "lines"
    /\ wline < wcfg.n_lines
    /\ \E side \in {"top", "right", "bottom", "left"}, r \in WalkUnits :
          \E p \in {_random_border_point(side, r, wcfg.width, wcfg.height)} :
             /\ wx' = p[1]
             /\ wy' = p[2]
             /\ wpts' = <<p>>
    /\ wangle' \in 0..(NDirs - 1)
    /\ wline' = wline + 1
    /\ wpc' = "walk"
    /\ UNCHANGED <<wcfg, wdwg>>
    /\ UNCHANGED <<coreVars, seedVars, mainVars, copyVars>>

\* the bounds check made before the append, as the flow tracer makes it
WalkStep_BreakBeforeAppend ==
    /\ wpc = "walk"
    /\ Len(wpts) <= MaxWalkPoints
    /\ \E turn \in WalkTurns, r \in WalkUnits :
          \E a \in {(wangle + turn) % NDirs} :
             \E p \in {<<FltAdd(wx, FltMul(cos(a),
                                    uniform(wcfg.step_min, wcfg.step_max, r))),
                         FltAdd(wy, FltMul(sin(a),
                                    uniform(wcfg.step_min, wcfg.step_max, r)))>>} :
                /\ wangle' = a
                /\ wx' = p[1]
                /\ wy' = p[2]
                /\ IF ~_inside(p[1], p[2], wcfg.width, wcfg.height)
                   THEN wpc' = "left" /\ UNCHANGED wpts
                   ELSE wpc' = "walk" /\ wpts' = Append(wpts, p)
    /\ UNCHANGED <<wcfg, wline, wdwg>>
    /\ UNCHANGED <<coreVars, seedVars, mainVars, copyVars>>

\* lines 108-116: one iteration of the while loop
WalkStep ==
    /\ wpc = "walk"
    /\ Len(wpts) <= MaxWalkPoints
    /\ \E turn \in WalkTurns, r \in WalkUnits :
          \E a \in {(wangle + turn) % NDirs} :
             \E p \in {<<FltAdd(wx, FltMul(cos(a),
                                    uniform(wcfg.step_min, wcfg.step_max, r))),
                         FltAdd(wy, FltMul(sin(a),
                                    uniform(wcfg.step_min, wcfg.step_max, r)))>>} :
                /\ wangle' = a
                /\ wx' = p[1]
                /\ wy' = p[2]
                /\ wpts' = Append(wpts, p)
                /\ wpc' = IF ~_inside(p[1], p[2], wcfg.width, wcfg.height)
                          THEN "left" ELSE "walk"
    /\ UNCHANGED <<wcfg, wline, wdwg>>
    /\ UNCHANGED <<coreVars, seedVars, mainVars, copyVars>>

\* lines 118-127: the line is added to the drawing
WalkEndLine ==
    /\ wpc = "left"
    /\ wdwg' = Append(wdwg, [kind |-> "polyline", points |-> wpts])
    /\ wpc' = "lines"
    /\ UNCHANGED <<wcfg, wline, wx, wy, wangle, wpts>>
    /\ UNCHANGED <<coreVars, seedVars, mainVars, copyVars>>

\* line 129: dwg.save()
WalkSave ==
    /\ wpc = "lines"
    /\ wline = wcfg.n_lines
    /\ wpc' = "done"
    /\ UNCHANGED <<wcfg, wline, wx, wy, wangle, wpts, wdwg>>
    /\ UNCHANGED <<coreVars, seedVars, mainVars, copyVars>>

NextWalk == WalkStartLine \/ WalkStep \/ WalkEndLine \/ WalkSave

SpecWalk == InitWalk /\ [][NextWalk]_vars

(***************************************************************************)
(* main() of main.py (lines 13-59) with rename_file and svg_to_png of      *)
(* py_helper/file_utils.py.  File and script names are sequences of        *)
(* characters; the output directory is the set of the names of its files.  *)
(* A script run by subprocess.run either writes tmp.svg, or ends without   *)
(* writing it, or ends with a non-zero status.                             *)
(***************************************************************************)
MaxScripts == 2

TmpSvg == <<"t", "m", "p", ".", "s", "v", "g">>

PngSuffix == <<".", "p", "n", "g">>

\* the truth value of v (line 36, "if not enabled")
Truthy(v) ==
    CASE v.t \in {"int", "bool"} -> v.n # 0
      [] v.t = "str" -> v.cs # <<>>
      [] v.t = "list" -> v.vs # <<>>
      [] OTHER -> FALSE

DigitChar(k) ==
    CASE k = 0 -> "0" [] k = 1 -> "1" [] k = 2 -> "2" [] k = 3 -> "3"
      [] k = 4 -> "4" [] k = 5 -> "5" [] k = 6 -> "6" [] k = 7 -> "7"
      [] k = 8 -> "8" [] k = 9 -> "9"

\* the decimal digits of k >= 0
RECURSIVE DigitsOf(_)
DigitsOf(k) ==
    IF k < 10 THEN <<DigitChar(k)>>
    ELSE Append(DigitsOf(k \div 10), DigitChar(k % 10))

\* str(k) of an int
str(k) == IF k < 0 THEN <<"-">> \o DigitsOf(-k) ELSE DigitsOf(k)

\* the position of the last "." of name, 0 if it has none
LastDot(name) ==
    IF \E k \in 1..Len(name) : name[k] = "."
    THEN CHOOSE k \in 1..Len(name) :
            /\ name[k] = "."
            /\ \A j \in (k + 1)..Len(name) : name[j] # "."
    ELSE 0

\* Path(name).suffix: from the last dot on, unless that dot is the first or
\* the last character
PathSuffix(name) ==
    LET k == LastDot(name)
    IN  IF 1 < k /\ k < Len(name) THEN SubSeq(name, k, Len(name)) ELSE <<>>

\* Path(name).with_suffix(suffix)
WithSuffix(name, suffix) ==
    SubSeq(name, 1, Len(name) - Len(PathSuffix(name))) \o suffix

\* file_utils.py lines 10-22: the exception raised ("" if none) and the
\* directory afterwards
rename_file(files, source, new_name) ==
    IF source \notin files
    THEN [raised |-> "FileNotFoundError", files |-> files]
    ELSE IF new_name = <<>>
    THEN [raised |-> "ValueError", files |-> files]
    ELSE LET target_name == IF PathSuffix(new_name) # <<>> THEN new_name
                            ELSE new_name \o PathSuffix(source)
         IN  [raised |-> "", files |-> (files \ {source}) \cup {target_name}]

\* file_utils.py lines 25-48, the conversion succeeding: the exception
\* raised, the directory afterwards and the path returned
svg_to_png(files, source) ==
    IF source \notin files
    THEN [raised |-> "FileNotFoundError", files |-> files, path |-> <<>>]
    ELSE [raised |-> "", files |-> files \cup {WithSuffix(source, PngSuffix)},
          path |-> WithSuffix(source, PngSuffix)]

\* script names: "a", "b.c" and "m"; the file of "m" does not exist
ScriptNames == {<<"a">>, <<"b", ".", "c">>, <<"m">>}

ExistingScripts == {<<"a">>, <<"b", ".", "c">>}

ScriptFlags == {PyBool(TRUE), PyBool(FALSE), PyIntVal(0)}

\* [style].seedlist: missing, [], the string "3", [3], [3, -1], ["x"]
MainSeedLists ==
    {None, PyList(<<>>), PyStr(<<"3">>), PyList(<<PyIntVal(3)>>),
     PyList(<<PyIntVal(3), PyIntVal(-1)>>), PyList(<<PyStr(<<"x">>)>>)}

\* [pic_scripts]: a table of up to MaxScripts entries with different keys,
\* in the order of the file, or a value that is not a table
PicScriptTables ==
    {[isdict |-> TRUE, items |-> it] :
        it \in {q \in UNION {[1..n -> ScriptNames \X ScriptFlags] :
                                n \in 0..MaxScripts} :
                   \A i, j \in 1..Len(q) : i # j => q[i][1] # q[j][1]}}
    \cup {[isdict |-> FALSE, items |-> <<>>]}

MainConfigs ==
    [seedlist : MainSeedLists, pic_scripts : PicScriptTables,
     exists : {ExistingScripts}]

Exc(name, arg) == [exc |-> name, arg |-> arg]

InitMain ==
    /\ NoiseIdle
    /\ FlowIdle
    /\ BlobIdle
    /\ SeedIdle
    /\ WalkIdle
    /\ CopyIdle
    /\ mcfg \in MainConfigs
    /\ mpc = "start"
    /\ msi = 0
    /\ mki = 0
    /\ mseeds = <<>>
    /\ mfiles \in {{}, {TmpSvg}}
    /\ mruns = <<>>
    /\ mraised = <<>>

\* lines 24-33: the seed list and the script table are read and checked
MainLoadConfig ==
    /\ mpc = "start"
    /\ LET seed_list == mcfg.seedlist
           ints == [i \in 1..Len(seed_list.vs) |-> int(seed_list.vs[i])]
           bad == {i \in 1..Len(seed_list.vs) : ints[i].raised # ""}
       IN  IF seed_list.t = "none" \/ seed_list.t # "list" \/ seed_list.vs = <<>>
           THEN /\ mraised' = <<Exc("ValueError", <<>>)>>
                /\ mpc' = "raised"
                /\ UNCHANGED mseeds
           ELSE IF bad # {}
           THEN /\ mraised' = <<Exc(ints[CHOOSE i \in bad :
                                           \A j \in bad : i <= j].raised, <<>>)>>
                /\ mpc' = "raised"
                /\ UNCHANGED mseeds
           ELSE IF ~mcfg.pic_scripts.isdict
           THEN /\ mraised' = <<Exc("TypeError", <<>>)>>
                /\ mpc' = "raised"
                /\ mseeds' = [i \in 1..Len(seed_list.vs) |-> ints[i].value]
           ELSE /\ mseeds' = [i \in 1..Len(seed_list.vs) |-> ints[i].value]
                /\ mpc' = "scripts"
                /\ UNCHANGED mraised
    /\ UNCHANGED <<mcfg, msi, mki, mfiles, mruns>>
    /\ UNCHANGED <<coreVars, seedVars, walkVars, copyVars>>

\* the test of the script's flag left out
MainNextScript_NoEnabledTest ==
    /\ mpc = "scripts"
    /\ IF msi = Len(mcfg.pic_scripts.items)
       THEN /\ mpc' = "done"
            /\ UNCHANGED <<msi, mki, mraised>>
       ELSE LET script_name == mcfg.pic_scripts.items[msi + 1][1]
            IN  IF script_name \notin mcfg.exists
                THEN /\ mraised' = <<Exc("FileNotFoundError",
                                         script_name \o <<".", "p", "y">>)>>
                     /\ mpc' = "raised"
                     /\ UNCHANGED <<msi, mki>>
                ELSE /\ msi' = msi + 1
                     /\ mki' = 0
                     /\ mpc' = "seeds"
                     /\ UNCHANGED mraised
    /\ UNCHANGED <<mcfg, mseeds, mfiles, mruns>>
    /\ UNCHANGED <<coreVars, seedVars, walkVars, copyVars>>

\* lines 35-41: the next entry of [pic_scripts] is taken: skipped if
\* disabled, FileNotFoundError if its file is missing; the loop ends after
\* the last entry
MainNextScript ==
    /\ mpc = "scripts"
    /\ IF msi = Len(mcfg.pic_scripts.items)
       THEN /\ mpc' = "done"
            /\ UNCHANGED <<msi, mki, mraised>>
       ELSE LET script_name == mcfg.pic_scripts.items[msi + 1][1]
                enabled == mcfg.pic_scripts.items[msi + 1][2]
            IN  IF ~Truthy(enabled)
                THEN /\ msi' = msi + 1
                     /\ UNCHANGED <<mki, mpc, mraised>>
                ELSE IF script_name \notin mcfg.exists
                THEN /\ mraised' = <<Exc("FileNotFoundError",
                                         script_name \o <<".", "p", "y">>)>>
                     /\ mpc' = "raised"
                     /\ UNCHANGED <<msi, mki>>
                ELSE /\ msi' = msi + 1
                     /\ mki' = 0
                     /\ mpc' = "seeds"
                     /\ UNCHANGED mraised
    /\ UNCHANGED <<mcfg, mseeds, mfiles, mruns>>
    /\ UNCHANGED <<coreVars, seedVars, walkVars, copyVars>>

\* lines 43-49: the script is run with GEN_SEED = str(seed)
MainRunScript ==
    /\ mpc = "seeds"
    /\ mruns' = Append(mruns, [script |-> mcfg.pic_scripts.items[msi][1],
                               GEN_SEED |-> str(mseeds[mki + 1])])
    /\ \E outcome \in {"svg", "nothing", "failed"} :
          CASE outcome = "svg" ->
                  /\ mfiles' = mfiles \cup {TmpSvg}
                  /\ mpc' = "post"
                  /\ UNCHANGED mraised
            [] outcome = "nothing" ->
                  /\ mpc' = "post"
                  /\ UNCHANGED <<mfiles, mraised>>
            [] OTHER ->
                  /\ mraised' = <<Exc("CalledProcessError", <<>>)>>
                  /\ mpc' = "raised"
                  /\ UNCHANGED mfiles
    /\ UNCHANGED <<mcfg, msi, mki, mseeds>>
    /\ UNCHANGED <<coreVars, seedVars, walkVars, copyVars>>

\* lines 51-59: tmp.svg is converted, deleted, and the PNG renamed
MainPostProcess ==
    /\ mpc = "post"
    /\ IF TmpSvg \notin mfiles
       THEN /\ mraised' = <<Exc("FileNotFoundError", TmpSvg)>>
            /\ mpc' = "raised"
            /\ UNCHANGED <<mfiles, mki>>
       ELSE \E png \in {svg_to_png(mfiles, TmpSvg)} :
               \E res \in {rename_file(png.files \ {TmpSvg}, png.path,
                                       mcfg.pic_scripts.items[msi][1]
                                       \o <<"_">> \o str(mseeds[mki + 1]))} :
                  /\ mfiles' = res.files
                  /\ mki' = mki + 1
                  /\ mpc' = IF mki + 1 = Len(mseeds) THEN "scripts" ELSE "seeds"
                  /\ UNCHANGED mraised
    /\ UNCHANGED <<mcfg, msi, mseeds, mruns>>
    /\ UNCHANGED <<coreVars, seedVars, walkVars, copyVars>>

NextMain ==
    MainLoadConfig \/ MainNextScript \/ MainRunScript \/ MainPostProcess

SpecMain == InitMain /\ [][NextMain]_vars

(***************************************************************************)
(* The copies evaluated on the same arguments.                             *)
(***************************************************************************)
\* noise calls within the parameter ranges, with octaves < 1 or a gain
\* outside (0, 1), and on and next to the lattice
CopyNoiseInputs ==
    [x : {<<-3, 2>>, <<1, 2>>}, y : YCoords, seed : Seeds,
     octaves : 1..MaxOctaves, lacunarity : Lacunarities, gain : {<<3, 2>>}]
    \cup
    [x : {<<2, 2>>}, y : {<<1, 2>>}, seed : {-1},
     octaves : (-1)..MaxOctaves, lacunarity : {<<2, 0>>},
     gain : {<<1, 1>>} \cup DegenerateGains]
    \cup
    [x : LatticeXs, y : LatticeYs, seed : {7}, octaves : {1},
     lacunarity : {<<2, 0>>}, gain : {<<1, 1>>}]

\* curve calls whose point list, if it has a second point, has it at (2, 1)
CopyCatmullInputs ==
    {a \in CatmullInputs : Len(a.points) >= 2 => a.points[2] = <<2, 1>>}

\* the same explicit arguments handed to every copy
CopyInputs ==
    [kind : {"noise"}, args : CopyNoiseInputs]
    \cup [kind : {"catmull"}, args : CopyCatmullInputs]

InitCopies ==
    /\ NoiseIdle
    /\ FlowIdle
    /\ BlobIdle
    /\ SeedIdle
    /\ WalkIdle
    /\ MainIdle
    /\ cargs \in CopyInputs
    /\ cres = <<>>

\* _hash_int, value_noise_2d and fbm_2d of the three files on one input
EvalNoiseCopies ==
    /\ cargs.kind = "noise"
    /\ cres = <<>>
    /\ LET a == cargs.args
           px == ArgFlt(a.x)
           py == ArgFlt(a.y)
           sd == IntFrom(a.seed)
           key == LatticeKey(FltFloor(px), FltFloor(py), sd)
           lac == ArgFlt(a.lacunarity)
           gn == ArgFlt(a.gain)
       IN  cres' =
             <<[organic_with_blobs |->
                   [h |-> _hash_int(key),
                    v |-> value_noise_2d(px, py, sd),
                    f |-> fbm_2d(px, py, sd, a.octaves, lac, gn)],
                organic_flowfield |->
                   [h |-> organic_flowfield_hash_int(key),
                    v |-> organic_flowfield_value_noise_2d(px, py, sd),
                    f |-> organic_flowfield_fbm_2d(px, py, sd, a.octaves, lac, gn)],
                blobs_only |->
                   [h |-> blobs_only_hash_int(key),
                    v |-> blobs_only_value_noise_2d(px, py, sd),
                    f |-> blobs_only_fbm_2d(px, py, sd, a.octaves, lac, gn)]]>>
    /\ UNCHANGED cargs
    /\ UNCHANGED <<coreVars, seedVars, walkVars, mainVars>>

\* catmull_rom_to_beziers of the two files on one input
EvalCatmullCopies ==
    /\ cargs.kind = "catmull"
    /\ cres = <<>>
    /\ LET a == cargs.args
       IN  cres' =
             <<[organic_with_blobs |->
                   catmull_rom_to_beziers(ArgPoints(a.points), a.closed, a.tension),
                blobs_only |->
                   blobs_only_catmull_rom_to_beziers(ArgPoints(a.points), a.closed,
                                                     a.tension)]>>
    /\ UNCHANGED cargs
    /\ UNCHANGED <<coreVars, seedVars, walkVars, mainVars>>

NextCopies == EvalNoiseCopies \/ EvalCatmullCopies

SpecCopies == InitCopies /\ [][NextCopies]_vars

(***************************************************************************)
(* Properties of the noise functions, under SpecNoise.                     *)
(***************************************************************************)
\* C1: for octaves >= 1, lacunarity > 0 and gain in (0, 1), the value
\* fbm_2d returns, total / max(norm, 1e-9), lies in [0, 1]: the divisor is
\* positive and 0 <= total <= divisor.
C1_FbmInUnitInterval ==
    (/\ fout # <<>>
     /\ nin.octaves >= 1
     /\ FltLess(Flt(0, 0), ArgFlt(nin.lacunarity))
     /\ FltLess(Flt(0, 0), ArgFlt(nin.gain))
     /\ FltLess(ArgFlt(nin.gain), Flt(1, 0))) =>
        /\ FltLess(Flt(0, 0), fout[1].d)
        /\ FltLeq(Flt(0, 0), fout[1].n)
        /\ FltLeq(fout[1].n, fout[1].d)

\* fbm_2d evaluated with the most octaves, at a negative coordinate and a
\* negative seed, with a result strictly between 0 and 1
C1_Witness ==
    /\ fout # <<>>
    /\ nin.octaves = MaxOctaves
    /\ nin.x[1] < 0
    /\ nin.seed < 0
    /\ FltLess(Flt(0, 0), fout[1].n)
    /\ FltLess(fout[1].n, fout[1].d)

\* C2: the hash _hash_int computes for the key of (ix, iy, seed) equals the
\* reference mixer, which masks to 32 bits after every step.
C2_HashEqualsReference ==
    hout # <<>> =>
        hout[1] = HashMixer_mix(FltFloor(ArgFlt(nin.x)),
                                FltFloor(ArgFlt(nin.y)), IntFrom(nin.seed))

\* C11: fbm_2d called with octaves < 1 returns no value (it fails with an
\* error instead).
C11_LowOctavesNoValue ==
    nin.octaves < 1 => fout = <<>>

\* 1 + g + ... + g^(k-1), the sum of the amplitudes of k layers
RECURSIVE AmpSum(_, _)
AmpSum(g, k) ==
    IF k <= 0 THEN Flt(0, 0)
    ELSE FltAdd(Flt(1, 0), FltMul(g, AmpSum(g, k - 1)))

\* C12: for octaves >= 1 and any gain, the divisor of the value fbm_2d
\* returns is positive, at least 1e-9, and is 1e-9 itself when the sum of
\* the amplitudes is below 1e-9; otherwise it is that sum.
C12_DivisorGuarded ==
    (fout # <<>> /\ nin.octaves >= 1) =>
        LET norm == AmpSum(ArgFlt(nin.gain), nin.octaves)
        IN  /\ FltLess(Flt(0, 0), fout[1].d)
            /\ FltLeq(Eps, fout[1].d)
            /\ FltEq(fout[1].d, IF FltLess(norm, Eps) THEN Eps ELSE norm)

\* gain = -1 with 2 octaves: the amplitudes sum to 0 and the divisor is 1e-9
C12_Witness ==
    /\ fout # <<>>
    /\ nin.octaves = 2
    /\ nin.gain = <<-1, 0>>
    /\ FltEq(fout[1].d, Eps)

\* C14: with octaves = 1 fbm_2d returns the value of value_noise_2d at the
\* same point and seed, whatever lacunarity and gain are.
C14_SingleOctaveIsValueNoise ==
    (fout # <<>> /\ vout # <<>> /\ nin.octaves = 1) =>
        QEq(fout[1], QOfFlt(vout[1]))

\* a single-octave call with a gain outside (0, 1), off the lattice
C14_Witness ==
    /\ fout # <<>>
    /\ vout # <<>>
    /\ nin.octaves = 1
    /\ nin.gain \in DegenerateGains
    /\ FltLess(Flt(0, 0), vout[1])

\* C15: the lattice hash is an integer in [0, 2^32), so _rand2 = hash / 2^32
\* lies in [0, 1), and value_noise_2d lies in [0, 1).
C15_HashAndNoiseInRange ==
    /\ hout # <<>> =>
           /\ ~IntIsNeg(hout[1])
           /\ IntLess[hout[1], IntShl[IntFrom(1), 32]]
    /\ vout # <<>> =>
           /\ FltLeq(Flt(0, 0), vout[1])
           /\ FltLess(vout[1], Flt(1, 0))

\* hash and value noise evaluated at a negative coordinate with a negative
\* seed, the hash with its top bit set
C15_Witness ==
    /\ hout # <<>>
    /\ vout # <<>>
    /\ nin.x[1] < 0
    /\ nin.y[1] < 0
    /\ nin.seed < 0
    /\ IntLeq[IntShl[IntFrom(1), 31], hout[1]]

\* the interpolation value_noise_2d makes in the cell whose lower corner is
\* (x0, y0), at the offsets tx, ty in [0, 1] from that corner
CellNoise(x0, y0, tx, ty, seed) ==
    LET x1 == IntAdd[x0, IntFrom(1)]
        y1 == IntAdd[y0, IntFrom(1)]
    IN  _lerp(_lerp(_rand2(x0, y0, seed), _rand2(x1, y0, seed), _fade(tx)),
              _lerp(_rand2(x0, y1, seed), _rand2(x1, y1, seed), _fade(tx)),
              _fade(ty))

FltAbs(a) == IF FltLess(a, Flt(0, 0)) THEN FltSub(Flt(0, 0), a) ELSE a

\* C22: value_noise_2d is continuous across lattice lines: at x = k its
\* value is what the cell to the left gives at its right edge, and both are
\* the interpolation in y of the hashes of column k; likewise at y = m; at a
\* lattice point (k, m) it is the hash value of that point; and the value at
\* k + e differs from the value at k by at most 15/8 * e.
C22_ContinuousAtLattice ==
    vout # <<>> =>
        LET px == ArgFlt(nin.x)
            py == ArgFlt(nin.y)
            seed == IntFrom(nin.seed)
            x0 == FltFloor(px)
            y0 == FltFloor(py)
            tx == FltSub(px, FltOfInt(x0))
            ty == FltSub(py, FltOfInt(y0))
            one == Flt(1, 0)
            zero == Flt(0, 0)
        IN  /\ FltEq(tx, zero) =>
                  /\ FltEq(vout[1],
                           CellNoise(IntSub[x0, IntFrom(1)], y0, one, ty, seed))
                  /\ FltEq(vout[1],
                           _lerp(_rand2(x0, y0, seed),
                                 _rand2(x0, IntAdd[y0, IntFrom(1)], seed),
                                 _fade(ty)))
            /\ FltEq(ty, zero) =>
                  /\ FltEq(vout[1],
                           CellNoise(x0, IntSub[y0, IntFrom(1)], tx, one, seed))
                  /\ FltEq(vout[1],
                           _lerp(_rand2(x0, y0, seed),
                                 _rand2(IntAdd[x0, IntFrom(1)], y0, seed),
                                 _fade(tx)))
            /\ (FltEq(tx, zero) /\ FltEq(ty, zero)) =>
                  FltEq(vout[1], _rand2(x0, y0, seed))
            /\ FltLeq(FltAbs(FltSub(vout[1],
                                    value_noise_2d(FltOfInt(x0), py, seed))),
                      FltMul(Flt(15, 3), tx))

\* value noise evaluated at a lattice point of negative x
C22_Witness ==
    /\ vout # <<>>
    /\ nin.x = <<-1, 0>>
    /\ nin.y = <<3, 0>>

\* a to the power k, k >= 0
RECURSIVE FltPow(_, _)
FltPow(a, k) == IF k = 0 THEN Flt(1, 0) ELSE FltMul(a, FltPow(a, k - 1))

\* layer o of the call in nin: value noise at frequency lacunarity^o with
\* seed seed + 1013 * o, weighted by gain^o
Layer(o) ==
    LET f == FltPow(ArgFlt(nin.lacunarity), o)
    IN  FltMul(FltPow(ArgFlt(nin.gain), o),
               value_noise_2d(FltMul(ArgFlt(nin.x), f),
                              FltMul(ArgFlt(nin.y), f),
                              IntFrom(nin.seed + 1013 * o)))

\* the sum of layers k-1, k-2, ..., 0
RECURSIVE LayerSum(_)
LayerSum(k) == IF k <= 0 THEN Flt(0, 0) ELSE FltAdd(Layer(k - 1), LayerSum(k - 1))

\* C21: fbm_2d accumulates exactly octaves layers: its value is the sum over
\* o = 0..octaves-1 of gain^o * value_noise_2d(x * lacunarity^o,
\* y * lacunarity^o, seed + 1013 * o), divided by max(sum of gain^o, 1e-9).
C21_FbmIsLayerSum ==
    (fout # <<>> /\ nin.octaves >= 1) =>
        /\ FltEq(fout[1].n, LayerSum(nin.octaves))
        /\ FltEq(fout[1].d,
                 FltMax(AmpSum(ArgFlt(nin.gain), nin.octaves), Eps))

\* a call with the most octaves, lacunarity 3/2 and gain 3/4, off the
\* lattice, whose last layer is not zero
C21_Witness ==
    /\ fout # <<>>
    /\ nin.octaves = MaxOctaves
    /\ nin.lacunarity = <<3, 1>>
    /\ nin.gain = <<3, 2>>
    /\ nin.x = <<1, 2>>
    /\ FltLess(Flt(0, 0), Layer(MaxOctaves - 1))

(***************************************************************************)
(* Properties of the flow trace, under SpecFlow.                           *)
(***************************************************************************)
\* the step loop of the current line is over
TraceEnded == pc = "trace" /\ (broke \/ s = cfg.steps_per_line)

StartOf(ps) == ps[1]

LastOf(ps) == ps[Len(ps)]

InsidePoint(p) == inside(cfg, p[1], p[2])

Polylines == {i \in 1..Len(dwg) : dwg[i].kind = "polyline"}

\* C4: a trace with step budget steps_per_line never holds more than
\* steps_per_line + 1 points, drawn or not, and its step loop runs at most
\* steps_per_line iterations (s that appended, one more if it broke off).
C4_TraceWithinBudget ==
    /\ Len(pts) <= cfg.steps_per_line + 1
    /\ s + (IF broke THEN 1 ELSE 0) <= cfg.steps_per_line
    /\ \A i \in Polylines : Len(dwg[i].points) <= cfg.steps_per_line + 1

\* a trace that used its whole budget, the largest one
C4_Witness ==
    /\ TraceEnded
    /\ ~broke
    /\ cfg.steps_per_line = MaxSteps
    /\ Len(pts) = MaxSteps + 1

\* C5 as claimed: when a trace stops early, the last point of its polyline
\* fails the bounds check.
C5_LastPointFailsBounds ==
    (TraceEnded /\ broke) => ~InsidePoint(LastOf(pts))

\* C5 as amended: when a trace stops early, the point that failed the
\* bounds check (left in x, y) is not appended; the polyline holds the
\* start and the s points accepted before it, and every point after the
\* start passes the bounds check.
C5_FailingPointNotAppended ==
    (TraceEnded /\ broke) =>
        /\ ~inside(cfg, x, y)
        /\ Len(pts) = s + 1
        /\ s < cfg.steps_per_line
        /\ \A i \in 2..Len(pts) : InsidePoint(pts[i])

\* a trace from a start inside the bounds that stopped early after at
\* least two accepted steps
C5_Witness ==
    /\ TraceEnded
    /\ broke
    /\ InsidePoint(StartOf(pts))
    /\ Len(pts) >= 3

\* C6: a trace whose start is outside the bounds holds exactly the start:
\* no step is completed and no point appended.
C6_OutsideStartOnePoint ==
    (pts # <<>> /\ ~InsidePoint(StartOf(pts))) =>
        /\ Len(pts) = 1
        /\ s = 0

\* a trace with a positive budget, started outside the bounds, that is over
C6_Witness ==
    /\ TraceEnded
    /\ cfg.steps_per_line > 0
    /\ ~InsidePoint(StartOf(pts))
    /\ Len(pts) = 1

\* C7: a trace none of whose steps failed the bounds check holds one point
\* per completed step and the start, steps_per_line + 1 when it is over; with
\* steps_per_line = 0 it holds the start alone.
C7_FullTraceLength ==
    /\ (pc = "trace" /\ ~broke) => Len(pts) = s + 1
    /\ (TraceEnded /\ ~broke) => Len(pts) = cfg.steps_per_line + 1
    /\ (pc = "trace" /\ cfg.steps_per_line = 0) =>
           /\ ~broke
           /\ pts = <<<<x, y>>>>

\* a finished trace of a positive budget, all of whose steps passed
C7_Witness ==
    /\ pc = "lines"
    /\ line > 0
    /\ ~broke
    /\ cfg.steps_per_line > 2
    /\ Len(pts) = cfg.steps_per_line + 1
    /\ \A i \in 1..Len(pts) : InsidePoint(pts[i])

C17_OnlyPassingPointsAppended ==
    /\ pc = "trace" =>
          /\ Len(pts) = s + 1
          /\ \A i \in 2..Len(pts) : InsidePoint(pts[i])
    /\ \A k \in Polylines :
          \A i \in 2..Len(dwg[k].points) : InsidePoint(dwg[k].points[i])
    /\ (pc = "trace" /\ ~broke) => LastOf(pts) = <<x, y>>
    /\ (pc = "trace" /\ broke) =>
          /\ ~inside(cfg, x, y)
          /\ ~ENABLED Step

\* a drawing that holds a polyline, and a later trace from a start inside
\* the bounds that a failing point ended after at least one passing step
C17_Witness ==
    /\ Polylines # {}
    /\ TraceEnded
    /\ broke
    /\ InsidePoint(StartOf(pts))
    /\ Len(pts) >= 2
    /\ ~inside(cfg, x, y)

\* C18: a traced line is rendered only if it has at least 8 points: after
\* every step of the generator each polyline of the drawing has at least
\* MinPoints points; the step that ends a trace of fewer than MinPoints
\* points leaves the drawing as it was, and the step that ends a longer one
\* adds exactly one element, a polyline of the trace's points.
C18_ShortTracesDiscarded ==
    [][/\ \A k \in 1..Len(dwg') :
             dwg'[k].kind = "polyline" => Len(dwg'[k].points) >= MinPoints
       /\ (pc = "trace" /\ pc' = "lines") =>
             IF Len(pts) < MinPoints
             THEN dwg' = dwg
             ELSE /\ Len(dwg') = Len(dwg) + 1
                  /\ dwg'[Len(dwg')].kind = "polyline"
                  /\ dwg'[Len(dwg')].points = pts]_vars

\* a run that drew its first line and discarded its second, a trace of 2 to
\* 7 points
C18_Witness ==
    /\ pc = "lines"
    /\ line = 2
    /\ Cardinality(Polylines) = 1
    /\ Len(pts) >= 2
    /\ Len(pts) < MinPoints

\* C13: no unit reads state written by another unit: when a flow line
\* begins, the random generator its start is drawn from is still in the
\* state it was constructed in (no earlier unit has advanced it).
C13_UnitsReadNoSharedState ==
    [][StartLine => rngDraws = 0]_vars

\* C29: the step loop never draws from the random generator: a line's
\* start takes exactly 2 draws, a step none, and the end of a trace exactly 1
\* (the opacity) if the trace has at least MinPoints points and none
\* otherwise; so when line k + 1 starts the generator stands at 2 * k plus
\* the number of lines rendered so far.
C29_DrawsPerLine ==
    [][/\ (pc = "lines" /\ pc' = "trace") =>
             /\ rngDraws' = rngDraws + 2
             /\ rngDraws = 2 * line + Cardinality(Polylines)
       /\ (pc = "trace" /\ pc' = "trace") => rngDraws' = rngDraws
       /\ (pc = "trace" /\ pc' = "lines") =>
             rngDraws' = rngDraws + (IF Len(pts) >= MinPoints THEN 1 ELSE 0)
       /\ (pc = "lines" /\ pc' = "done") => rngDraws' = rngDraws]_vars

\* the second line being traced after a first line that was rendered: the
\* generator stands at 5, not 4
C29_Witness ==
    /\ pc = "trace"
    /\ line = 2
    /\ s > 0
    /\ Cardinality(Polylines) = 1
    /\ rngDraws = 5

(***************************************************************************)
(* Properties of the blob outline, under SpecBlob.                         *)
(***************************************************************************)
\* the call is one of blob_path_d (it has n_points), not of
\* catmull_rom_to_beziers alone
IsBlobCall == "n_points" \in DOMAIN bin

\* the points catmull_rom_to_beziers is called with
SplinePoints == IF IsBlobCall THEN ring ELSE ArgPoints(bin.points)

SplineClosed == IsBlobCall \/ bin.closed

\* C9: a blob with n_points < 4 ends in ValueError and neither a segment list
\* nor a path exists at any time; the same for catmull_rom_to_beziers
\* called with fewer than 4 points.
C9_FewPointsRaise ==
    /\ (IsBlobCall /\ bin.n_points < 4) =>
           /\ segs = <<>>
           /\ d = <<>>
           /\ bpc \in {"ang0", "ring", "raised"}
           /\ raised = (IF bpc = "raised" THEN "ValueError" ELSE "")
    /\ (~IsBlobCall /\ Len(bin.points) < 4) =>
           /\ segs = <<>>
           /\ bpc \in {"catmull", "raised"}
           /\ raised = (IF bpc = "raised" THEN "ValueError" ELSE "")

\* a blob of three ring points, all computed, that raised
C9_Witness ==
    /\ IsBlobCall
    /\ bin.n_points = 3
    /\ Len(ring) = 3
    /\ bpc = "raised"
    /\ raised = "ValueError"

\* C10: for a ring of n >= 4 points the closed spline has n segments,
\* segment i starts at ring point i and ends exactly where segment
\* (i + 1) mod n starts.
C10_ClosedRingChain ==
    (segs # <<>> /\ SplineClosed) =>
        LET n == Len(SplinePoints)
        IN  /\ n >= 4
            /\ Len(segs[1]) = n
            /\ \A i \in 1..n :
                  /\ segs[1][i][1] = SplinePoints[i]
                  /\ segs[1][i][4] = segs[1][(i % n) + 1][1]

\* a closed spline through the most points, not all the same
C10_Witness ==
    /\ segs # <<>>
    /\ ~IsBlobCall
    /\ bin.closed
    /\ Len(bin.points) = MaxPoints
    /\ bin.points[1] # bin.points[MaxPoints]
    /\ bin.points[1] # bin.points[2]

\* the angle of ring vertex i (counted from 1), as a compass sector
RingAngle(i) ==
    Angle(Flt(1, 0),
          QAdd(QOfFlt(ang0),
               [n |-> Flt(i - 1, 0), d |-> Flt(bin.n_points, 0)]))

\* the square of the distance between points p and q
DistSq(p, q) ==
    QAdd(QMul(QSub(p[1], q[1]), QSub(p[1], q[1])),
         QMul(QSub(p[2], q[2]), QSub(p[2], q[2])))

\* C16: every ring vertex i is center + (cos a, sin a) * r for the angle a of
\* its index and a radius r with base_r * (1 - roughness) <= r <=
\* base_r * (1 + roughness); with roughness = 0, r = base_r, and the vertex
\* is at distance base_r from the center (checked where the compass
\* direction is a unit vector: the four axis directions).
C16_RingVertexOnRay ==
    IsBlobCall =>
        /\ Len(radii) = Len(ring)
        /\ \A i \in 1..Len(ring) :
              LET a == RingAngle(i)
                  r == radii[i]
                  c == <<QOfFlt(bin.center[1]), QOfFlt(bin.center[2])>>
                  one == Flt(1, 0)
              IN  /\ QLeq(QOfFlt(FltMul(bin.base_r,
                                        FltSub(one, bin.roughness))), r)
                  /\ QLeq(r, QOfFlt(FltMul(bin.base_r,
                                           FltAdd(one, bin.roughness))))
                  /\ PointEq(ring[i],
                             <<QAdd(c[1], QMul(QOfFlt(cos(a)), r)),
                               QAdd(c[2], QMul(QOfFlt(sin(a)), r))>>)
                  /\ FltEq(bin.roughness, Flt(0, 0)) =>
                        /\ QEq(r, QOfFlt(bin.base_r))
                        /\ a % 2 = 0 =>
                              QEq(DistSq(ring[i], c),
                                  QOfFlt(FltMul(bin.base_r, bin.base_r)))

\* a complete ring with roughness 1/2 one of whose radii differs from base_r
C16_Witness ==
    /\ IsBlobCall
    /\ bin.n_points = MaxPoints
    /\ Len(ring) = MaxPoints
    /\ bin.roughness = Flt(1, 1)
    /\ \E i \in 1..Len(radii) : ~QEq(radii[i], QOfFlt(bin.base_r))

\* p + t * (a - b) / 6, componentwise
HandleAfter(p, a, b, t) ==
    <<QAdd(p[1], QDiv(QMul(t, QSub(a[1], b[1])), QInt(6))),
      QAdd(p[2], QDiv(QMul(t, QSub(a[2], b[2])), QInt(6)))>>

\* p - t * (a - b) / 6, componentwise
HandleBefore(p, a, b, t) ==
    <<QSub(p[1], QDiv(QMul(t, QSub(a[1], b[1])), QInt(6))),
      QSub(p[2], QDiv(QMul(t, QSub(a[2], b[2])), QInt(6)))>>

\* C19: for a ring of n >= 4 points and tension t, closed-mode segment i
\* (from 0) is (p1, c1, c2, p2) with p0..p3 the points at indices i - 1, i,
\* i + 1, i + 2 mod n, c1 = p1 + t * (p2 - p0) / 6 and
\* c2 = p2 - t * (p3 - p1) / 6; at i = 0 the index i - 1 is n - 1.
C19_ClosedSegmentFormula ==
    (segs # <<>> /\ SplineClosed) =>
        LET P == SplinePoints
            n == Len(P)
            t == QOfFlt(bin.tension)
        IN  /\ n >= 4
            /\ Len(segs[1]) = n
            /\ \A i \in 0..(n - 1) :
                  LET p0 == P[((i + n - 1) % n) + 1]
                      p1 == P[i + 1]
                      p2 == P[((i + 1) % n) + 1]
                      p3 == P[((i + 2) % n) + 1]
                      seg == segs[1][i + 1]
                  IN  /\ Len(seg) = 4
                      /\ seg[1] = p1
                      /\ PointEq(seg[2], HandleAfter(p1, p2, p0, t))
                      /\ PointEq(seg[3], HandleBefore(p2, p3, p1, t))
                      /\ seg[4] = p2
                      /\ i = 0 => p0 = P[n]

\* the closed spline of a blob ring of the most points, perturbed, with
\* tension 3/2, whose first handle is not on its first point
C19_Witness ==
    /\ IsBlobCall
    /\ segs # <<>>
    /\ bin.n_points = MaxPoints
    /\ bin.roughness = Flt(1, 1)
    /\ bin.tension = Flt(3, 2)
    /\ ~PointEq(segs[1][1][2], segs[1][1][1])
    /\ ~PointEq(segs[1][1][2], segs[1][1][3])

\* C20: catmull_rom_to_beziers with closed = False and n >= 4 points
\* returns n - 1 segments; segment i (from 0) runs from point i to point
\* i + 1 with the stencil indices i - 1 and i + 2 clamped to 0..n-1, so the
\* first segment has p0 = point 0 and the last p3 = point n - 1; the chain
\* starts at point 0 and ends at point n - 1.
C20_OpenChain ==
    (~IsBlobCall /\ ~bin.closed /\ Len(bin.points) >= 4) =>
        /\ bpc \in {"catmull", "returned"}
        /\ raised = ""
        /\ bpc = "returned" =>
              LET P == ArgPoints(bin.points)
                  n == Len(P)
                  t == QOfFlt(bin.tension)
                  S == segs[1]
              IN  /\ Len(S) = n - 1
                  /\ \A i \in 0..(n - 2) :
                        LET p0 == P[(IF i = 0 THEN 0 ELSE i - 1) + 1]
                            p3 == P[(IF i = n - 2 THEN n - 1 ELSE i + 2) + 1]
                        IN  /\ S[i + 1][1] = P[i + 1]
                            /\ S[i + 1][4] = P[i + 2]
                            /\ PointEq(S[i + 1][2],
                                       HandleAfter(P[i + 1], P[i + 2], p0, t))
                            /\ PointEq(S[i + 1][3],
                                       HandleBefore(P[i + 2], p3, P[i + 1], t))
                  /\ S[1][1] = P[1]
                  /\ S[n - 1][4] = P[n]

\* an open spline through the most points, returned, whose two ends differ
\* and whose interior points differ from the ends
C20_Witness ==
    /\ ~IsBlobCall
    /\ ~bin.closed
    /\ bpc = "returned"
    /\ Len(bin.points) = MaxPoints
    /\ bin.points[1] # bin.points[MaxPoints]
    /\ bin.points[MaxPoints - 1] # bin.points[1]
    /\ bin.points[2] # bin.points[MaxPoints]
    /\ Len(segs[1]) = MaxPoints - 1

\* the formatted number f is the quotient q to two decimals: f.h hundredths,
\* within half a hundredth of |q|, with q's sign
TwoDecimalsOf(f, q) ==
    LET a == IF FltLess(q.n, Flt(0, 0)) THEN FltSub(Flt(0, 0), q.n) ELSE q.n
        diff == FltAbs(FltSub(FltMul(a, Flt(100, 0)),
                              FltMul(Flt(f.h, 0), q.d)))
    IN  /\ f.h \in Nat
        /\ FltLeq(FltMul(diff, Flt(2, 0)), q.d)
        /\ f.neg = FltLess(q.n, Flt(0, 0))

\* the pair of formatted numbers fs is the point p to two decimals
PointTwoDecimals(fs, p) ==
    /\ Len(fs) = 2
    /\ TwoDecimalsOf(fs[1], p[1])
    /\ TwoDecimalsOf(fs[2], p[2])

\* C23: the path of a blob is one M command at the first segment's start,
\* then one C command per segment in index order with that segment's c1, c2
\* and end point to two decimals, then Z; the end point of the last C
\* command is the same pair of numbers as the M point.
C23_PathInSegmentOrder ==
    d # <<>> =>
        LET path == d[1]
            sg == segs[1]
            n == Len(sg)
        IN  /\ n = bin.n_points
            /\ Len(path) = n + 2
            /\ path[1].cmd = "M"
            /\ PointTwoDecimals(path[1].args, sg[1][1])
            /\ \A i \in 1..n :
                  /\ path[i + 1].cmd = "C"
                  /\ Len(path[i + 1].args) = 6
                  /\ PointTwoDecimals(SubSeq(path[i + 1].args, 1, 2), sg[i][2])
                  /\ PointTwoDecimals(SubSeq(path[i + 1].args, 3, 4), sg[i][3])
                  /\ PointTwoDecimals(SubSeq(path[i + 1].args, 5, 6), sg[i][4])
            /\ path[n + 2].cmd = "Z"
            /\ path[n + 2].args = <<>>
            /\ SubSeq(path[n + 1].args, 5, 6) = path[1].args

\* the path of a perturbed blob of the most points, whose first C command
\* has two different control points
C23_Witness ==
    /\ d # <<>>
    /\ bin.n_points = MaxPoints
    /\ bin.roughness = Flt(1, 0)
    /\ SubSeq(d[1][2].args, 1, 2) # SubSeq(d[1][2].args, 3, 4)

\* p - q, componentwise
PointSub(p, q) == <<QSub(p[1], q[1]), QSub(p[2], q[2])>>

\* C24: in a closed outline the handles at every shared vertex mirror each
\* other: with v the end of segment i and the start of segment
\* (i + 1) mod n, c1 of segment (i + 1) mod n minus v equals v minus c2 of
\* segment i, and both are tension * (next point - previous point) / 6;
\* this holds at the wrap-around vertex 0 as at the others.
C24_MirroredHandles ==
    (segs # <<>> /\ SplineClosed) =>
        LET P == SplinePoints
            n == Len(P)
            t == QOfFlt(bin.tension)
            zero == <<QInt(0), QInt(0)>>
        IN  \A i \in 1..n :
               LET j == (i % n) + 1
                   v == segs[1][i][4]
                   out == PointSub(segs[1][j][2], v)
                   in == PointSub(v, segs[1][i][3])
                   next == P[(j % n) + 1]
                   prev == P[i]
               IN  /\ v = segs[1][j][1]
                   /\ v = P[j]
                   /\ PointEq(out, in)
                   /\ PointEq(out, HandleAfter(zero, next, prev, t))

\* a closed spline through the most points with tension 3/2 whose handles at
\* the wrap-around vertex 0 are not zero
C24_Witness ==
    /\ segs # <<>>
    /\ ~IsBlobCall
    /\ bin.closed
    /\ bin.tension = Flt(3, 2)
    /\ Len(bin.points) = MaxPoints
    /\ ~PointEq(segs[1][1][2], segs[1][1][1])
    /\ ~PointEq(segs[1][MaxPoints][3], segs[1][MaxPoints][4])

(***************************************************************************)
(* Properties of _resolve_seed, under SpecSeed.                            *)
(***************************************************************************)
\* the three sources of the call in rin, None when missing
SeedEnv == rin.env

SeedOfStyle ==
    IF "style" \in DOMAIN rin.config /\ "seed" \in DOMAIN rin.config.style
    THEN rin.config.style.seed ELSE None

SeedListOfStyle ==
    IF "style" \in DOMAIN rin.config /\ "seedlist" \in DOMAIN rin.config.style
    THEN rin.config.style.seedlist ELSE None

EnvAvailable == SeedEnv.t = "str" /\ Len(SeedEnv.cs) > 0

SeedAvailable == SeedOfStyle.t # "none"

SeedListAvailable == SeedListOfStyle.t = "list" /\ Len(SeedListOfStyle.vs) > 0

\* C27: the seed is resolved by strict precedence: a non-empty GEN_SEED
\* decides the outcome alone; otherwise [style].seed, when present (0
\* included), decides it; otherwise the first element of a non-empty list
\* [style].seedlist; when none is available the call raises ValueError; an
\* empty GEN_SEED gives what an unset one gives.
C27_SeedPrecedence ==
    rout # <<>> =>
        /\ EnvAvailable => rout[1] = int(SeedEnv)
        /\ (~EnvAvailable /\ SeedAvailable) => rout[1] = int(SeedOfStyle)
        /\ (~EnvAvailable /\ SeedAvailable /\ SeedOfStyle = PyIntVal(0)) =>
               rout[1] = Returned(0)
        /\ (~EnvAvailable /\ ~SeedAvailable /\ SeedListAvailable) =>
               rout[1] = int(SeedListOfStyle.vs[1])
        /\ (~EnvAvailable /\ ~SeedAvailable /\ ~SeedListAvailable) =>
               rout[1] = Raised("ValueError")
        /\ SeedEnv = PyStr(<<>>) => rout[1] = _resolve_seed(None, rin.config)

\* a call without GEN_SEED, with [style].seed = 0 and a non-empty seedlist,
\* that returned 0
C27_Witness ==
    /\ rout # <<>>
    /\ SeedEnv = PyStr(<<>>)
    /\ SeedOfStyle = PyIntVal(0)
    /\ SeedListAvailable
    /\ rout[1] = Returned(0)

(***************************************************************************)
(* Properties of the random walk, under SpecWalk.                          *)
(***************************************************************************)
WalkInside(p) == _inside(p[1], p[2], wcfg.width, wcfg.height)

\* p lies on one of the four sides of the canvas
OnBorder(p) ==
    /\ WalkInside(p)
    /\ \/ FltEq(p[1], Flt(0, 0))
       \/ FltEq(p[1], Flt(wcfg.width, 0))
       \/ FltEq(p[2], Flt(0, 0))
       \/ FltEq(p[2], Flt(wcfg.height, 0))

\* ps is a finished walk: at least 2 points, the first on the border, all
\* but the last inside the canvas, the last outside
FinishedWalk(ps) ==
    /\ Len(ps) >= 2
    /\ OnBorder(ps[1])
    /\ \A i \in 1..(Len(ps) - 1) : WalkInside(ps[i])
    /\ ~WalkInside(ps[Len(ps)])

\* C28: every line of the random walk has at least 2 points, starts on the
\* canvas border, has every point but the last inside the canvas and the
\* last one outside (the point that left the canvas is appended); while the
\* walk goes on every point is inside, so only leaving the canvas ends it.
C28_WalkEndsOutside ==
    /\ \A i \in 1..Len(wdwg) :
          wdwg[i].kind = "polyline" => FinishedWalk(wdwg[i].points)
    /\ wpc = "left" => FinishedWalk(wpts)
    /\ wpc = "walk" =>
          /\ Len(wpts) >= 1
          /\ OnBorder(wpts[1])
          /\ \A i \in 1..Len(wpts) : WalkInside(wpts[i])
          /\ wpts[Len(wpts)] = <<wx, wy>>

\* a line in the drawing that took two steps inside the canvas before the
\* one that left it
C28_Witness ==
    /\ wpc = "lines"
    /\ Len(wdwg) = 2
    /\ wdwg[2].kind = "polyline"
    /\ Len(wdwg[2].points) = 4

(***************************************************************************)
(* Properties of main(), under SpecMain.                                   *)
(***************************************************************************)
\* the entries of [pic_scripts] in file order
PicItems == mcfg.pic_scripts.items

SeedlistUsable == mcfg.seedlist.t = "list" /\ mcfg.seedlist.vs # <<>>

\* the run r was allowed: usable seed list, truthy flag, existing file
RunJustified(r) ==
    /\ SeedlistUsable
    /\ \E i \in 1..Len(PicItems) :
          PicItems[i][1] = r.script /\ Truthy(PicItems[i][2])
    /\ r.script \in mcfg.exists

ScriptFile(name) == name \o <<".", "p", "y">>

\* C25: main runs a script only if [style].seedlist is a non-empty list,
\* the script's flag is truthy and its file exists.  A missing, empty or
\* non-list seedlist raises ValueError before any run; a disabled script is
\* never run; an enabled script whose file is missing raises
\* FileNotFoundError before any run of it, and that step leaves the runs
\* and the output files of the scripts before it as they were.
C25_RunsOnlyWhenAllowed ==
    [][/\ \A i \in 1..Len(mruns') : RunJustified(mruns'[i])
       /\ (mpc = "start" /\ ~SeedlistUsable) =>
             /\ mraised' = <<Exc("ValueError", <<>>)>>
             /\ mpc' = "raised"
             /\ mruns' = <<>>
       /\ (/\ mpc = "scripts"
           /\ msi < Len(PicItems)
           /\ Truthy(PicItems[msi + 1][2])
           /\ PicItems[msi + 1][1] \notin mcfg.exists) =>
             /\ mraised' = <<Exc("FileNotFoundError",
                                 ScriptFile(PicItems[msi + 1][1]))>>
             /\ mpc' = "raised"
             /\ mruns' = mruns
             /\ mfiles' = mfiles
             /\ \A i \in 1..Len(mruns) : mruns[i].script # PicItems[msi + 1][1]
       /\ (/\ mpc = "scripts"
           /\ msi < Len(PicItems)
           /\ ~Truthy(PicItems[msi + 1][2])) =>
             /\ mruns' = mruns
             /\ mpc' = "scripts"
             /\ msi' = msi + 1
             /\ mraised' = <<>>]_vars

\* main stopped at the missing file of the second script after the first
\* script ran and left its output
C25_Witness ==
    /\ mpc = "raised"
    /\ mraised = <<Exc("FileNotFoundError", ScriptFile(<<"m">>))>>
    /\ Len(mruns) = 2
    /\ Cardinality(mfiles) >= 2

\* the seeds of the list as main converts them (line 29)
SeedsOfList == [i \in 1..Len(mcfg.seedlist.vs) |-> int(mcfg.seedlist.vs[i]).value]

\* the runs of the scripts items[k..] in order, each with every seed in order
RECURSIVE ExpectedRunsFrom(_)
ExpectedRunsFrom(k) ==
    IF k > Len(PicItems) THEN <<>>
    ELSE (IF Truthy(PicItems[k][2])
          THEN [i \in 1..Len(SeedsOfList) |->
                   [script |-> PicItems[k][1], GEN_SEED |-> str(SeedsOfList[i])]]
          ELSE <<>>) \o ExpectedRunsFrom(k + 1)

IsPrefix(done, all) == Len(done) <= Len(all) /\ SubSeq(all, 1, Len(done)) = done

\* <script>_<seed>.png
PngNameOf(script, seed) == script \o <<"_">> \o str(seed) \o PngSuffix

\* C26: the (script, seed) pairs are processed one after another, scripts
\* in config order and seeds in list order, each run with GEN_SEED set to
\* the seed; after each pair's iteration tmp.svg is gone and
\* <script>_<seed>.png exists; after a successful main every enabled script
\* has an output for every seed; a run that leaves no tmp.svg aborts with
\* FileNotFoundError.
C26_PairsInOrderWithPng ==
    [][/\ IsPrefix(mruns', ExpectedRunsFrom(1))
       /\ Len(mruns') <= Len(mruns) + 1
       /\ mruns' # mruns => (mpc = "seeds" /\ mpc' \in {"post", "raised"})
       /\ (mpc = "post" /\ TmpSvg \notin mfiles) =>
             /\ mraised' = <<Exc("FileNotFoundError", TmpSvg)>>
             /\ mpc' = "raised"
       /\ (mpc = "post" /\ TmpSvg \in mfiles) =>
             /\ TmpSvg \notin mfiles'
             /\ PngNameOf(PicItems[msi][1], mseeds[mki + 1]) \in mfiles'
             /\ mraised' = <<>>
       /\ mpc' = "done" =>
             \A k \in 1..Len(PicItems) : \A i \in 1..Len(mseeds) :
                Truthy(PicItems[k][2]) =>
                   PngNameOf(PicItems[k][1], mseeds[i]) \in mfiles']_vars

(***************************************************************************)
(* Properties of the copies, under SpecCopies.                             *)
(***************************************************************************)
\* C30: for equal explicit arguments the noise functions of blobs_only.py,
\* organic_flowfield.py and organic_with_blobs.py return the same values
\* (_hash_int, value_noise_2d, fbm_2d), and catmull_rom_to_beziers of
\* blobs_only.py and organic_with_blobs.py return the same segments or
\* raise the same exception.
C30_CopiesAgree ==
    cres # <<>> =>
       IF cargs.kind = "noise"
       THEN /\ cres[1].organic_flowfield = cres[1].organic_with_blobs
            /\ cres[1].blobs_only = cres[1].organic_with_blobs
       ELSE cres[1].blobs_only = cres[1].organic_with_blobs

\* the three copies evaluated on a sample off the lattice with two octaves
C30_Witness ==
    /\ cres # <<>>
    /\ cargs.kind = "noise"
    /\ cargs.args.octaves = 2
    /\ cargs.args.x = <<1, 2>>
    /\ ~FltEq(cres[1].blobs_only.v, Flt(0, 0))
    /\ FltLess(Flt(0, 0), cres[1].blobs_only.f.n)
====
